---- MODULE Spec2Model ----
(***************************************************************************)
(* Multiplayer IPC layer of fallout1-re (src/src/game/multiplayer.c).      *)
(* Byte strings are sequences of one-character strings; the module state   *)
(* is the file's static variables plus the pipe they talk to.              *)
(***************************************************************************)
EXTENDS Integers, Sequences, FiniteSets, TLC

(* ----------------------------------------------------------------------- *)
(* Program constants                                                       *)
(* ----------------------------------------------------------------------- *)
MSG_BUFFER_SIZE == 4096
TEMP_SIZE == 1024
SEARCH_SIZE == 64
TYPE_SIZE == 32
ID_SIZE == 64
PIPE_NAME_SIZE == 256
WEAPON_MODE_SIZE == 16
AIMED_LOCATION_SIZE == 16
ITEM_ID_SIZE == 32
READY_MSG_SIZE == 256
JSON_SIZE == 512
DEFAULT_TIME_LIMIT == 30

NULL == "NULL"
NULLSTR == <<"NULL">>
INVALID_HANDLE_VALUE == 0

(* ----------------------------------------------------------------------- *)
(* C strings                                                               *)
(* ----------------------------------------------------------------------- *)
Chars(s) == [i \in 1..Len(s) |-> SubSeq(s, i, i)]

Take(s, n) == IF Len(s) <= n THEN s ELSE SubSeq(s, 1, n)

MinOf(S) == CHOOSE i \in S : \A j \in S : i <= j

\* strstr: index of the first occurrence of needle at or after from, 0 if none
strstr(hay, from, needle) ==
    LET S == {i \in from..(Len(hay) - Len(needle) + 1) :
                 SubSeq(hay, i, i + Len(needle) - 1) = needle}
    IN IF S = {} THEN 0 ELSE MinOf(S)

\* strchr: index of the first ch at or after from, 0 if none
strchr(s, from, ch) ==
    LET S == {i \in from..Len(s) : s[i] = ch}
    IN IF S = {} THEN 0 ELSE MinOf(S)

\* strncpy(dst, src, n - 1) into a zero-terminated array of n bytes
strncpy(src, n) == Take(src, n - 1)

\* snprintf(buf, size, ...): the formatted text cut to size - 1 bytes
snprintf(size, text) == Take(text, size - 1)

Digits == <<"0", "1", "2", "3", "4", "5", "6", "7", "8", "9">>

DigitVal(ch) == (CHOOSE d \in 1..10 : Digits[d] = ch) - 1

IsDigit(ch) == \E d \in 1..10 : Digits[d] = ch

IsSpace(ch) == ch \in {" ", "\t", "\n", "\r"}

RECURSIVE FmtNat(_)
FmtNat(n) == IF n < 10 THEN <<Digits[n + 1]>>
             ELSE Append(FmtNat(n \div 10), Digits[(n % 10) + 1])

\* A slip that prints the magnitude without the sign
FmtInt_drops_sign(n) == IF n < 0 THEN FmtNat(0 - n) ELSE FmtNat(n)

\* printf "%d"
FmtInt(n) == IF n < 0 THEN <<"-">> \o FmtNat(0 - n) ELSE FmtNat(n)

RECURSIVE ParseDigits(_, _, _)
ParseDigits(s, i, acc) ==
    IF i > Len(s) \/ ~IsDigit(s[i]) THEN acc
    ELSE ParseDigits(s, i + 1, acc * 10 + DigitVal(s[i]))

RECURSIVE SkipSpace(_, _)
SkipSpace(s, i) == IF i <= Len(s) /\ IsSpace(s[i]) THEN SkipSpace(s, i + 1) ELSE i

\* atoi on the text starting at index i: blanks, an optional sign, digits
atoi(s, i) ==
    LET j == SkipSpace(s, i)
    IN IF j <= Len(s) /\ s[j] = "-" THEN 0 - ParseDigits(s, j + 1, 0)
       ELSE IF j <= Len(s) /\ s[j] = "+" THEN ParseDigits(s, j + 1, 0)
       ELSE ParseDigits(s, j, 0)

(* ----------------------------------------------------------------------- *)
(* JSON helpers                                                            *)
(* ----------------------------------------------------------------------- *)
StrKey(key) == snprintf(SEARCH_SIZE, <<"\"">> \o Chars(key) \o Chars("\":\""))

ValKey(key) == snprintf(SEARCH_SIZE, <<"\"">> \o Chars(key) \o Chars("\":"))

\* The contents of out after json_get_string(json, key, out, out_size):
\* out keeps what it held when the key or the closing quote is missing.
json_get_string(json, key, out, out_size) ==
    LET start == strstr(json, 1, StrKey(key))
        from  == start + Len(StrKey(key))
        end   == strchr(json, from, "\"")
    IN IF start = 0 THEN out
       ELSE IF end = 0 THEN out
       ELSE Take(SubSeq(json, from, end - 1), out_size - 1)

json_get_int(json, key, default_val) ==
    LET start == strstr(json, 1, ValKey(key))
    IN IF start = 0 THEN default_val
       ELSE atoi(json, start + Len(ValKey(key)))

\* strncmp(s + i, lit, strlen(lit)) == 0
strncmp0(s, i, lit) ==
    /\ i + Len(lit) - 1 <= Len(s)
    /\ SubSeq(s, i, i + Len(lit) - 1) = lit

RECURSIVE SkipBlank(_, _)
SkipBlank(s, i) == IF i <= Len(s) /\ s[i] = " " THEN SkipBlank(s, i + 1) ELSE i

json_get_bool(json, key, default_val) ==
    LET start == strstr(json, 1, ValKey(key))
        from  == SkipBlank(json, start + Len(ValKey(key)))
    IN IF start = 0 THEN default_val
       ELSE strncmp0(json, from, Chars("true"))

(* ----------------------------------------------------------------------- *)
(* Bounds of the model                                                     *)
(* ----------------------------------------------------------------------- *)
MaxCalls == 2
MaxTurnInits == 1
MaxTurnWrites == 2
MaxDispatchWrites == 2
MaxUnknownWrites == 2
MaxDecodeWrites == 1
MaxConnCalls == 2
MaxRawWrites == 2
MaxRoundTripSends == 2
MaxSessions == 2
MaxSessionWrites == 2
MaxOrderWrites == 2
MaxPollWrites == 2
MaxActionSends == 2
MaxReentrantInits == 1
MaxReentrantWrites == 2

(* ----------------------------------------------------------------------- *)
(* Inputs                                                                  *)
(* ----------------------------------------------------------------------- *)
Handlers == {"h1", "h2"}

\* A handler of the game that ends the session: it calls mp_exit
ExitHandler == "h_exit"

PipeName == "\\\\.\\pipe\\test"

ArgvP1 == <<"fallout.exe", "-multiplayer", "-pipe", PipeName, "-session", "s1", "-player", "p1">>
ArgvP2 == <<"fallout.exe", "-multiplayer", "-player", "p2", "-session", "s2", "-pipe", PipeName>>

ArgvNoPlayer == <<"fallout.exe", "-multiplayer", "-pipe", PipeName, "-session", "s1">>
ArgvNoFlag == <<"fallout.exe", "-pipe", PipeName, "-session", "s1", "-player", "p1">>

Argvs == {<<"fallout.exe">>, ArgvP1, ArgvP2, ArgvNoPlayer, ArgvNoFlag}

MainArgvs == {ArgvP1, ArgvNoPlayer, ArgvNoFlag}

ConnectOutcomes == {"connected", "wait_failed", "open_failed"}

NoState == [null |-> TRUE]

SendStates ==
    { [participant_id |-> Chars("p1"), tile_index |-> 12, elevation |-> 0,
       rotation |-> 3, current_hp |-> -4, max_hp |-> 30, current_ap |-> 0,
       max_ap |-> 8, is_dead |-> TRUE],
      [participant_id |-> <<>>, tile_index |-> 0, elevation |-> 1,
       rotation |-> 0, current_hp |-> 25, max_hp |-> 25, current_ap |-> 7,
       max_ap |-> 7, is_dead |-> FALSE] }

Action(type, tile, target, mode, aimed, item) ==
    [type |-> Chars(type), target_tile |-> tile, target_id |-> Chars(target),
     weapon_mode |-> Chars(mode), aimed_location |-> Chars(aimed),
     item_id |-> Chars(item)]

SendActions ==
    { Action("move", 7, "", "", "", ""),
      Action("attack", 0, "p2", "burst", "head", ""),
      Action("use-item", 0, "p1", "", "", "stimpak"),
      Action("end-turn", 0, "", "", "", ""),
      Action("reload", 0, "", "", "", "") }

\* States and actions for the round trip: empty strings and a string of
\* punctuation without a double quote, 0, negative integers and the largest
\* int, both values of is_dead; actions of each tag with
\* values in the fields their tag does not use as well
RoundTripStates ==
    SendStates \cup
    { [participant_id |-> Chars("tileIndex:9,{x} y"), tile_index |-> 40000,
       elevation |-> 2, rotation |-> 5, current_hp |-> -120,
       max_hp |-> 2147483647,
       current_ap |-> -1, max_ap |-> 10, is_dead |-> FALSE] }

RoundTripActions ==
    { Action("move", 7, "", "", "", ""),
      Action("move", -3, "p2", "burst", "head", "stimpak"),
      Action("move", 0, "", "", "", ""),
      Action("attack", 0, "p2", "burst", "head", ""),
      Action("attack", 9, "", "", "", "stimpak"),
      Action("use-item", 0, "p1", "", "", "stimpak"),
      Action("use-item", 4, "", "aimed", "eyes", ""),
      Action("end-turn", 0, "", "", "", ""),
      Action("end-turn", 11, "p2", "single", "torso", "rope") }

\* What an uninitialized char array on the stack may hold
StackGarbage == {<<>>, Chars("p1")}

\* Frames the launcher sends
TurnStartP1 == "{\"type\":\"turn-start\",\"participantId\":\"p1\",\"timeLimit\":30}"
TurnStartP2 == "{\"timeLimit\":45,\"participantId\":\"p2\",\"type\":\"turn-start\"}"
TurnStartNoId == "{\"type\":\"turn-start\",\"timeLimit\":10}"
RemoteAttack == "{\"type\":\"remote-action\",\"action\":\"attack\",\"targetId\":\"p1\",\"weaponMode\":\"burst\",\"aimedLocation\":\"head\"}"
RemoteBare == "{\"type\":\"remote-action\"}"
PlayerStateP2 == "{\"type\":\"player-state\",\"participantId\":\"p2\",\"tileIndex\":5,\"elevation\":1,\"rotation\":2,\"currentHp\":-3,\"maxHp\":20,\"currentAp\":4,\"maxAp\":9,\"isDead\":true}"
BogusType == "{\"type\":\"bogus\",\"participantId\":\"p2\",\"timeLimit\":5}"
NoType == "{\"participantId\":\"p2\",\"timeLimit\":5}"

\* A frame followed by the delimiter
Item(frame) == Chars(frame) \o <<"\n">>

\* A turn-start with a remote-action behind it in the same write, and
\* frames that do not move the turn
MainItems ==
    {Item(TurnStartP1) \o Item(RemoteAttack), Item(PlayerStateP2),
     Item(BogusType)}

TurnItems ==
    {Item(TurnStartP1), Item(RemoteAttack) \o Item(TurnStartP2),
     Item(TurnStartNoId)}

\* One frame of each kind process_message recognizes
DispatchItems == {Item(TurnStartP1), Item(RemoteAttack), Item(PlayerStateP2)}

\* Frames process_message does not recognize, alone and ahead of a frame it
\* does, and a turn-start that gives the local participant the turn
UnknownItems ==
    {Item(TurnStartP1), Item(BogusType), Item(NoType) \o Item(RemoteAttack)}

UnknownHandlers == {"h1", NULL}

\* Turn-starts alone and two in one write
OrderItems ==
    {Item(TurnStartP1), Item(TurnStartP2) \o Item(TurnStartP1),
     Item(TurnStartNoId)}

OrderHandlers == {"h1", NULL}

\* A frame longer than one read takes
LongFrame == [i \in 1..(TEMP_SIZE + 100) |-> "x"]

\* What the launcher writes while the game polls: a frame, a long frame, and
\* the head of a frame
PollItems ==
    {Item(TurnStartP1), LongFrame \o <<"\n">>, Chars("{\"type\":\"bogus\",")}

\* The head of a frame, written without its end
PartialP2 == "{\"type\":\"turn-start\",\"participantId\":\"p2\","

\* What the launcher writes over several sessions: a whole turn-start, and a
\* frame cut short
SessionItems == {Item(TurnStartP1), Chars(PartialP2)}

\* The keys process_message looks up in a frame of each kind, and a value
\* the launcher may send for each
FieldsOf(kind) ==
    IF kind = "turn-start" THEN <<"participantId", "timeLimit">>
    ELSE IF kind = "remote-action" THEN
        <<"action", "targetTile", "targetId", "weaponMode", "aimedLocation",
          "itemId">>
    ELSE <<"participantId", "tileIndex", "elevation", "rotation", "currentHp",
           "maxHp", "currentAp", "maxAp", "isDead">>

IntFields ==
    {"timeLimit", "targetTile", "tileIndex", "elevation", "rotation",
     "currentHp", "maxHp", "currentAp", "maxAp"}

BoolFields == {"isDead"}

SentValue(kind, name) ==
    IF name = "participantId" THEN Chars("p2")
    ELSE IF name = "timeLimit" THEN 45
    ELSE IF name = "action" THEN Chars("attack")
    ELSE IF name = "targetTile" THEN 7
    ELSE IF name = "targetId" THEN Chars("p1")
    ELSE IF name = "weaponMode" THEN Chars("burst")
    ELSE IF name = "aimedLocation" THEN Chars("head")
    ELSE IF name = "itemId" THEN Chars("stim")
    ELSE IF name = "tileIndex" THEN 5
    ELSE IF name = "elevation" THEN 1
    ELSE IF name = "rotation" THEN 2
    ELSE IF name = "currentHp" THEN 0 - 3
    ELSE IF name = "maxHp" THEN 20
    ELSE IF name = "currentAp" THEN 4
    ELSE IF name = "maxAp" THEN 9
    ELSE TRUE

\* The JSON text of a value
WireText(kind, name) ==
    IF name \in IntFields THEN FmtInt(SentValue(kind, name))
    ELSE IF name \in BoolFields THEN
        (IF SentValue(kind, name) THEN Chars("true") ELSE Chars("false"))
    ELSE <<"\"">> \o SentValue(kind, name) \o <<"\"">>

\* The members of a frame for the keys in present, in the order of names
RECURSIVE Members(_, _, _)
Members(kind, names, present) ==
    IF names = <<>> THEN <<>>
    ELSE (IF Head(names) \in present
          THEN Chars(",\"") \o Chars(Head(names)) \o Chars("\":")
               \o WireText(kind, Head(names))
          ELSE <<>>)
         \o Members(kind, Tail(names), present)

\* A frame of a kind that carries the keys in present and no others
BuildFrame(kind, present) ==
    Chars("{\"type\":\"") \o Chars(kind) \o <<"\"">>
    \o Members(kind, FieldsOf(kind), present) \o <<"}">>

\* All keys, none, all but one, and one alone
FieldSets(kind) ==
    LET all == {FieldsOf(kind)[i] : i \in 1..Len(FieldsOf(kind))}
    IN {all, {}} \cup {all \ {f} : f \in all} \cup {{f} : f \in all}

DecodeCases ==
    UNION {{[kind |-> k, present |-> F] : F \in FieldSets(k)} :
              k \in {"turn-start", "remote-action", "player-state"}}

FrameOf == [c \in DecodeCases |-> BuildFrame(c.kind, c.present)]

DecodeItems == {FrameOf[c] \o <<"\n">> : c \in DecodeCases}

DecodeHandlers == {"h1"}

\* What the launcher writes while the connection itself is under study
ConnItems == {Item(TurnStartP1)}

ConnHandlers == {"h1"}

DispatchHandlers == {"h1", "h2", NULL}

\* Handlers for the two other slots in the dispatch specification
DispatchOtherHandlers == {"h1", NULL}

MainStates == {CHOOSE st \in SendStates : st.is_dead, NoState}

MainActions == {Action("move", 7, "", "", "", ""), NoState}

MainHandlers == {"h1", NULL}

\* A run of bytes that fills msg_buffer to its last usable slot
FillRun == [i \in 1..(MSG_BUFFER_SIZE - 1) |-> "x"]

\* Bytes the launcher writes in one call: part of a frame, a lone delimiter,
\* and two frames with an empty one between them
RawItems == {<<"A">>, <<"\n">>, <<"B", "\n", "\n", "A", "\n">>}

(* ----------------------------------------------------------------------- *)
(* State                                                                   *)
(* ----------------------------------------------------------------------- *)
\* The kinds of message a handler can be registered for
Kinds == {"turn-start", "remote-action", "player-state"}

VARIABLES
    mp_active,            \* static bool mp_active
    mp_session,           \* static MultiplayerSession mp_session
    pipe_handle,          \* static HANDLE pipe_handle
    current_turn_player,  \* static char current_turn_player[64]
    is_my_turn,           \* static bool is_my_turn
    on_turn_start,        \* callback slots
    on_remote_action,
    on_player_state,
    registered,           \* the handler last passed to each mp_set_*_callback
    msg_buffer,           \* the first msg_buffer_pos bytes of msg_buffer
    msg_buffer_pos,
    open_handles,         \* pipe handles opened and not closed
    pipe_in,              \* bytes written by the launcher, not yet read
    pipe_out,             \* buffers handed to WriteFile that were written
    rx_stream,            \* every byte ReadFile has returned so far
    decoded,              \* every frame handed to process_message so far
    calls,                \* every callback invocation so far
    ret,                  \* result of the last bool entry point called
    entry,                \* the entry point the last step called, with the
                          \* argv of mp_init and the message of a send
    os_calls,             \* the Win32 calls the game made in the last step
    n_init,               \* pipe handles CreateFileA has returned so far
    n_sends,              \* state and action frames written so far
    n_peer,               \* launcher writes so far
    n_fill                \* of which long runs without a delimiter

vars == <<mp_active, mp_session, pipe_handle, current_turn_player, is_my_turn,
          on_turn_start, on_remote_action, on_player_state, registered,
          msg_buffer, msg_buffer_pos, open_handles, pipe_in, pipe_out, rx_stream, decoded,
          calls, ret, entry, os_calls, n_init, n_sends, n_peer, n_fill>>

turn_vars == <<current_turn_player, is_my_turn>>
conn_vars == <<mp_active, mp_session, pipe_handle, open_handles>>
live_vars == <<mp_active, pipe_handle, open_handles>>
cb_vars == <<on_turn_start, on_remote_action, on_player_state, registered>>
buf_vars == <<msg_buffer, msg_buffer_pos>>
log_vars == <<rx_stream, decoded, calls>>
cnt_vars == <<n_init, n_sends, n_peer, n_fill>>

Init ==
    /\ mp_active = FALSE
    /\ mp_session = [session_id |-> <<>>, participant_id |-> <<>>,
                     pipe_name |-> <<>>, is_host |-> FALSE]
    /\ pipe_handle = INVALID_HANDLE_VALUE
    /\ current_turn_player = <<>>
    /\ is_my_turn = FALSE
    /\ on_turn_start = NULL
    /\ on_remote_action = NULL
    /\ on_player_state = NULL
    /\ registered = [kind \in Kinds |-> NULL]
    /\ msg_buffer = <<>>
    /\ msg_buffer_pos = 0
    /\ open_handles = {}
    /\ pipe_in = <<>>
    /\ pipe_out = <<>>
    /\ rx_stream = <<>>
    /\ decoded = <<>>
    /\ calls = <<>>
    /\ ret = FALSE
    /\ entry = <<>>
    /\ os_calls = <<>>
    /\ n_init = 0
    /\ n_sends = 0
    /\ n_peer = 0
    /\ n_fill = 0

(* ----------------------------------------------------------------------- *)
(* Accessors                                                               *)
(* ----------------------------------------------------------------------- *)
mp_is_active == mp_active

mp_is_my_turn == mp_active /\ is_my_turn

mp_get_session == IF mp_active THEN mp_session ELSE [null |-> TRUE]

mp_get_current_turn_player ==
    IF current_turn_player # <<>> THEN current_turn_player ELSE NULLSTR

(* ----------------------------------------------------------------------- *)
(* Inbound: process_message and the loop of receive_messages               *)
(* The loop works on a record of the statics it can change.                *)
(* ----------------------------------------------------------------------- *)
\* A slip that starts every call of receive_messages on an empty buffer
LoopState_fresh_buffer ==
    [msg_buffer |-> <<>>, msg_buffer_pos |-> 0,
     current_turn_player |-> current_turn_player, is_my_turn |-> is_my_turn,
     calls |-> calls, decoded |-> decoded,
     mp_active |-> mp_active, pipe_handle |-> pipe_handle,
     open_handles |-> open_handles, closes |-> <<>>]

LoopState ==
    [msg_buffer |-> msg_buffer, msg_buffer_pos |-> msg_buffer_pos,
     current_turn_player |-> current_turn_player, is_my_turn |-> is_my_turn,
     calls |-> calls, decoded |-> decoded,
     mp_active |-> mp_active, pipe_handle |-> pipe_handle,
     open_handles |-> open_handles, closes |-> <<>>]

\* mp_exit called from inside a callback, on the statics of the loop
ExitInCallback(st) ==
    IF st.mp_active THEN
        [st EXCEPT !.closes = IF st.pipe_handle # INVALID_HANDLE_VALUE
                              THEN Append(@, "CloseHandle") ELSE @,
                   !.open_handles = @ \ {st.pipe_handle},
                   !.pipe_handle = INVALID_HANDLE_VALUE,
                   !.mp_active = FALSE]
    ELSE st

\* A callback runs: the log keeps its arguments and what the accessors
\* return on entry, and whether the layer is active then.  The handler
\* ExitHandler calls mp_exit before it returns; the others call nothing.
Invoke(st, cb, kind, arg) ==
    LET logged ==
          [st EXCEPT !.calls = Append(@,
              [cb |-> cb, kind |-> kind, arg |-> arg,
               seen_active  |-> st.mp_active,
               seen_my_turn |-> st.mp_active /\ st.is_my_turn,
               seen_player  |-> IF st.current_turn_player # <<>>
                                THEN st.current_turn_player ELSE NULLSTR])]
    IN IF cb = ExitHandler THEN ExitInCallback(logged) ELSE logged

\* A slip that compares against the wrong field of the session
TurnOwner_session_id(player_id) == player_id = mp_session.session_id

\* strcmp(player_id, mp_session.participant_id) == 0
TurnOwner(player_id) == player_id = mp_session.participant_id

\* A slip that takes every other type for a turn-start
MessageKind_default_turn_start(type) ==
    IF type = Chars("remote-action") THEN "remote-action"
    ELSE IF type = Chars("player-state") THEN "player-state"
    ELSE "turn-start"

\* The strcmp chain on type: which branch of process_message runs
MessageKind(type) ==
    IF type = Chars("turn-start") THEN "turn-start"
    ELSE IF type = Chars("remote-action") THEN "remote-action"
    ELSE IF type = Chars("player-state") THEN "player-state"
    ELSE "none"

DecodeType(json) == json_get_string(json, "type", <<>>, TYPE_SIZE)

\* char player_id[64] is not initialized: garbage is what it holds
DecodePlayerId(json, garbage) ==
    json_get_string(json, "participantId", garbage, ID_SIZE)

DecodeTimeLimit(json) == json_get_int(json, "timeLimit", DEFAULT_TIME_LIMIT)

DecodeAction(json) ==
    [type           |-> json_get_string(json, "action", <<>>, TYPE_SIZE),
     target_tile    |-> json_get_int(json, "targetTile", 0),
     target_id      |-> json_get_string(json, "targetId", <<>>, ID_SIZE),
     weapon_mode    |-> json_get_string(json, "weaponMode", <<>>, WEAPON_MODE_SIZE),
     aimed_location |-> json_get_string(json, "aimedLocation", <<>>, AIMED_LOCATION_SIZE),
     item_id        |-> json_get_string(json, "itemId", <<>>, ITEM_ID_SIZE)]

DecodeState(json) ==
    [participant_id |-> json_get_string(json, "participantId", <<>>, ID_SIZE),
     tile_index     |-> json_get_int(json, "tileIndex", 0),
     elevation      |-> json_get_int(json, "elevation", 0),
     rotation       |-> json_get_int(json, "rotation", 0),
     current_hp     |-> json_get_int(json, "currentHp", 0),
     max_hp         |-> json_get_int(json, "maxHp", 0),
     current_ap     |-> json_get_int(json, "currentAp", 0),
     max_ap         |-> json_get_int(json, "maxAp", 0),
     is_dead        |-> json_get_bool(json, "isDead", FALSE)]

\* A slip that consults the turn-start slot for every kind
Slot_turn_start_only(kind) == on_turn_start

\* The slot process_message consults for a kind
Slot(kind) ==
    IF kind = "turn-start" THEN on_turn_start
    ELSE IF kind = "remote-action" THEN on_remote_action
    ELSE on_player_state

Dispatch(st, kind, arg) ==
    IF Slot(kind) # NULL THEN Invoke(st, Slot(kind), kind, arg) ELSE st

\* A slip that moves the turn only when a turn-start handler is registered
TurnStart_needs_handler(st, player_id) ==
    IF on_turn_start # NULL
    THEN [st EXCEPT !.current_turn_player = strncpy(player_id, ID_SIZE),
                    !.is_my_turn = TurnOwner(player_id)]
    ELSE st

\* strncpy into current_turn_player and the assignment of is_my_turn
TurnStart(st, player_id) ==
    [st EXCEPT !.current_turn_player = strncpy(player_id, ID_SIZE),
               !.is_my_turn = TurnOwner(player_id)]

\* A slip that lets a player-state frame move the turn as well
process_message_state_moves_turn(st, json, garbage) ==
    LET kind == MessageKind(DecodeType(json))
    IN IF kind = "turn-start" THEN
           LET player_id == DecodePlayerId(json, garbage)
           IN Dispatch(TurnStart(st, player_id), kind,
                       [player_id |-> player_id,
                        time_limit |-> DecodeTimeLimit(json)])
       ELSE IF kind = "remote-action" THEN
           Dispatch(st, kind, DecodeAction(json))
       ELSE IF kind = "player-state" THEN
           Dispatch(TurnStart(st, DecodeState(json).participant_id), kind,
                    DecodeState(json))
       ELSE st

\* A slip that calls the turn-start handler before it updates the turn
process_message_dispatches_first(st, json, garbage) ==
    LET kind == MessageKind(DecodeType(json))
    IN IF kind = "turn-start" THEN
           LET player_id == DecodePlayerId(json, garbage)
           IN TurnStart(Dispatch(st, kind,
                                 [player_id |-> player_id,
                                  time_limit |-> DecodeTimeLimit(json)]),
                        player_id)
       ELSE IF kind = "remote-action" THEN
           Dispatch(st, kind, DecodeAction(json))
       ELSE IF kind = "player-state" THEN
           Dispatch(st, kind, DecodeState(json))
       ELSE st

process_message(st, json, garbage) ==
    LET kind == MessageKind(DecodeType(json))
    IN IF kind = "turn-start" THEN
           LET player_id == DecodePlayerId(json, garbage)
           IN Dispatch(TurnStart(st, player_id), kind,
                       [player_id |-> player_id,
                        time_limit |-> DecodeTimeLimit(json)])
       ELSE IF kind = "remote-action" THEN
           Dispatch(st, kind, DecodeAction(json))
       ELSE IF kind = "player-state" THEN
           Dispatch(st, kind, DecodeState(json))
       ELSE st

\* A slip that stores every byte, whatever the position
HasRoom_unbounded(pos) == TRUE

\* msg_buffer_pos < MSG_BUFFER_SIZE - 1
HasRoom(pos) == pos < MSG_BUFFER_SIZE - 1

\* A slip that keeps the newest byte in the last slot of a full buffer
Store_overwrites_last(st, ch) ==
    IF HasRoom(st.msg_buffer_pos) THEN
        [st EXCEPT !.msg_buffer = Append(@, ch), !.msg_buffer_pos = @ + 1]
    ELSE [st EXCEPT !.msg_buffer[st.msg_buffer_pos] = ch]

\* The else-if branch of the loop: a byte other than the delimiter
Store(st, ch) ==
    IF HasRoom(st.msg_buffer_pos) THEN
        [st EXCEPT !.msg_buffer = Append(@, ch), !.msg_buffer_pos = @ + 1]
    ELSE st

\* A slip that hands a zero-length frame to process_message as well
Step_decodes_empty(st, ch, garbage) ==
    IF ch = "\n" THEN
        LET json == SubSeq(st.msg_buffer, 1, st.msg_buffer_pos)
            st1  == process_message(
                        [st EXCEPT !.decoded = Append(@, json)],
                        json, garbage)
        IN [st1 EXCEPT !.msg_buffer = <<>>, !.msg_buffer_pos = 0]
    ELSE Store(st, ch)

\* One iteration of the loop over temp[]
Step(st, ch, garbage) ==
    IF ch = "\n" THEN
        LET json == SubSeq(st.msg_buffer, 1, st.msg_buffer_pos)
            st1  == IF st.msg_buffer_pos > 0
                    THEN process_message(
                             [st EXCEPT !.decoded = Append(@, json)],
                             json, garbage)
                    ELSE st
        IN [st1 EXCEPT !.msg_buffer = <<>>, !.msg_buffer_pos = 0]
    ELSE Store(st, ch)

\* The iterations for temp[lo..hi], in index order.  The range is halved
\* so that evaluation does not nest once per byte; the test on st makes
\* the left half evaluate before the right half starts.
RECURSIVE Loop(_, _, _, _, _)
Loop(st, temp, lo, hi, garbage) ==
    IF lo > hi \/ DOMAIN st = {} THEN st
    ELSE IF lo = hi THEN Step(st, temp[lo], garbage)
    ELSE LET mid == (lo + hi) \div 2
         IN Loop(Loop(st, temp, lo, mid, garbage), temp, mid + 1, hi, garbage)

\* A slip that reads nothing when more than one chunk is waiting
ReadLen_stalls_on_full_chunk(available) ==
    IF available < TEMP_SIZE - 1 THEN available ELSE 0

\* ReadFile(pipe_handle, temp, sizeof(temp) - 1, ...) on a byte-mode pipe
ReadLen(available) ==
    IF available < TEMP_SIZE - 1 THEN available ELSE TEMP_SIZE - 1

PollOutcomes == {"peek_failed", "read_failed", "read"}

\* A slip that reads whatever the check says is available, nothing included
receive_messages_reads_unchecked(io, garbage) ==
    IF pipe_handle = INVALID_HANDLE_VALUE THEN
        /\ ret' = FALSE
        /\ os_calls' = <<>>
        /\ UNCHANGED <<turn_vars, buf_vars, pipe_in, log_vars, live_vars>>
    ELSE IF io = "peek_failed" THEN
        /\ ret' = FALSE
        /\ os_calls' = <<"PeekNamedPipe">>
        /\ UNCHANGED <<turn_vars, buf_vars, pipe_in, log_vars, live_vars>>
    ELSE IF io = "read_failed" THEN
        /\ ret' = FALSE
        /\ os_calls' = <<"PeekNamedPipe", "ReadFile">>
        /\ UNCHANGED <<turn_vars, buf_vars, pipe_in, log_vars, live_vars>>
    ELSE IF Len(pipe_in) = 0 THEN
        /\ ret' = TRUE
        /\ os_calls' = <<"PeekNamedPipe", "ReadFile">>
        /\ UNCHANGED <<turn_vars, buf_vars, pipe_in, log_vars, live_vars>>
    ELSE
        LET bytes_read == ReadLen(Len(pipe_in))
            temp == SubSeq(pipe_in, 1, bytes_read)
        IN \E st \in {Loop(LoopState, temp, 1, bytes_read, garbage)} :
           /\ pipe_in' = IF st.pipe_handle = INVALID_HANDLE_VALUE THEN <<>>
                         ELSE SubSeq(pipe_in, bytes_read + 1, Len(pipe_in))
           /\ rx_stream' = rx_stream \o temp
           /\ mp_active' = st.mp_active
           /\ pipe_handle' = st.pipe_handle
           /\ open_handles' = st.open_handles
           /\ msg_buffer' = st.msg_buffer
           /\ msg_buffer_pos' = st.msg_buffer_pos
           /\ current_turn_player' = st.current_turn_player
           /\ is_my_turn' = st.is_my_turn
           /\ calls' = st.calls
           /\ decoded' = st.decoded
           /\ os_calls' = <<"PeekNamedPipe", "ReadFile">> \o st.closes
           /\ ret' = TRUE

\* io is what PeekNamedPipe and ReadFile do in this call
receive_messages(io, garbage) ==
    IF pipe_handle = INVALID_HANDLE_VALUE THEN
        /\ ret' = FALSE
        /\ os_calls' = <<>>
        /\ UNCHANGED <<turn_vars, buf_vars, pipe_in, log_vars, live_vars>>
    ELSE IF io = "peek_failed" \/ Len(pipe_in) = 0 THEN
        /\ ret' = FALSE
        /\ os_calls' = <<"PeekNamedPipe">>
        /\ UNCHANGED <<turn_vars, buf_vars, pipe_in, log_vars, live_vars>>
    ELSE IF io = "read_failed" THEN
        /\ ret' = FALSE
        /\ os_calls' = <<"PeekNamedPipe", "ReadFile">>
        /\ UNCHANGED <<turn_vars, buf_vars, pipe_in, log_vars, live_vars>>
    ELSE
        LET bytes_read == ReadLen(Len(pipe_in))
            temp == SubSeq(pipe_in, 1, bytes_read)
        IN \E st \in {Loop(LoopState, temp, 1, bytes_read, garbage)} :
           /\ pipe_in' = IF st.pipe_handle = INVALID_HANDLE_VALUE THEN <<>>
                         ELSE SubSeq(pipe_in, bytes_read + 1, Len(pipe_in))
           /\ rx_stream' = rx_stream \o temp
           /\ mp_active' = st.mp_active
           /\ pipe_handle' = st.pipe_handle
           /\ open_handles' = st.open_handles
           /\ msg_buffer' = st.msg_buffer
           /\ msg_buffer_pos' = st.msg_buffer_pos
           /\ current_turn_player' = st.current_turn_player
           /\ is_my_turn' = st.is_my_turn
           /\ calls' = st.calls
           /\ decoded' = st.decoded
           /\ os_calls' = <<"PeekNamedPipe", "ReadFile">> \o st.closes
           /\ ret' = TRUE

mp_poll_message(io, garbage) ==
    /\ entry' = <<"mp_poll_message">>
    /\ IF ~mp_active THEN
           /\ ret' = FALSE
           /\ os_calls' = <<>>
           /\ UNCHANGED <<turn_vars, buf_vars, pipe_in, log_vars, live_vars>>
       ELSE receive_messages(io, garbage)
    /\ UNCHANGED <<mp_session, cb_vars, pipe_out, cnt_vars>>

(* ----------------------------------------------------------------------- *)
(* Callback registration                                                   *)
(* ----------------------------------------------------------------------- *)
mp_set_turn_start_callback(cb) ==
    /\ entry' = <<"mp_set_turn_start_callback">>
    /\ on_turn_start' = cb
    /\ registered' = [registered EXCEPT !["turn-start"] = cb]
    /\ os_calls' = <<>>
    /\ UNCHANGED <<conn_vars, turn_vars, on_remote_action, on_player_state,
                   buf_vars, pipe_in, pipe_out, log_vars, ret, n_init, n_sends,
                   n_peer, n_fill>>

mp_set_remote_action_callback(cb) ==
    /\ entry' = <<"mp_set_remote_action_callback">>
    /\ on_remote_action' = cb
    /\ registered' = [registered EXCEPT !["remote-action"] = cb]
    /\ os_calls' = <<>>
    /\ UNCHANGED <<conn_vars, turn_vars, on_turn_start, on_player_state,
                   buf_vars, pipe_in, pipe_out, log_vars, ret, n_init, n_sends,
                   n_peer, n_fill>>

mp_set_player_state_callback(cb) ==
    /\ entry' = <<"mp_set_player_state_callback">>
    /\ on_player_state' = cb
    /\ registered' = [registered EXCEPT !["player-state"] = cb]
    /\ os_calls' = <<>>
    /\ UNCHANGED <<conn_vars, turn_vars, on_turn_start, on_remote_action,
                   buf_vars, pipe_in, pipe_out, log_vars, ret, n_init, n_sends,
                   n_peer, n_fill>>

(* ----------------------------------------------------------------------- *)
(* Outbound: send_message and the encoders                                 *)
(* ----------------------------------------------------------------------- *)
\* snprintf(buffer, sizeof(buffer), "%s\n", json)
SendBuffer(json) == snprintf(MSG_BUFFER_SIZE, json \o <<"\n">>)

\* send_message on handle h: its result, and pipe_out after it
send_result(h, write_ok) == h # INVALID_HANDLE_VALUE /\ write_ok

\* The Win32 calls of send_message on handle h
send_calls(h) == IF h # INVALID_HANDLE_VALUE THEN <<"WriteFile">> ELSE <<>>

send_message(h, json, write_ok) ==
    IF send_result(h, write_ok)
    THEN Append(pipe_out, [handle |-> h, data |-> SendBuffer(json)])
    ELSE pipe_out

EncodeReady(participant_id) ==
    snprintf(READY_MSG_SIZE,
        Chars("{\"type\":\"ready\",\"participantId\":\"") \o participant_id
        \o Chars("\"}"))

EncodeState(state) ==
    snprintf(JSON_SIZE,
        Chars("{\"type\":\"state-update\",\"participantId\":\"")
        \o state.participant_id
        \o Chars("\",\"tileIndex\":") \o FmtInt(state.tile_index)
        \o Chars(",\"elevation\":") \o FmtInt(state.elevation)
        \o Chars(",\"rotation\":") \o FmtInt(state.rotation)
        \o Chars(",\"currentHp\":") \o FmtInt(state.current_hp)
        \o Chars(",\"maxHp\":") \o FmtInt(state.max_hp)
        \o Chars(",\"currentAp\":") \o FmtInt(state.current_ap)
        \o Chars(",\"maxAp\":") \o FmtInt(state.max_ap)
        \o Chars(",\"isDead\":")
        \o (IF state.is_dead THEN Chars("true") ELSE Chars("false"))
        \o Chars("}"))

\* char json[512] is not initialized: garbage is what it holds when no
\* branch writes it
EncodeAction(action, garbage) ==
    IF action.type = Chars("move") THEN
        snprintf(JSON_SIZE,
            Chars("{\"type\":\"action\",\"action\":\"move\",\"targetTile\":")
            \o FmtInt(action.target_tile) \o Chars("}"))
    ELSE IF action.type = Chars("attack") THEN
        snprintf(JSON_SIZE,
            Chars("{\"type\":\"action\",\"action\":\"attack\",\"targetId\":\"")
            \o action.target_id
            \o Chars("\",\"weaponMode\":\"") \o action.weapon_mode
            \o Chars("\",\"aimedLocation\":\"") \o action.aimed_location
            \o Chars("\"}"))
    ELSE IF action.type = Chars("use-item") THEN
        snprintf(JSON_SIZE,
            Chars("{\"type\":\"action\",\"action\":\"use-item\",\"itemId\":\"")
            \o action.item_id
            \o Chars("\",\"targetId\":\"") \o action.target_id
            \o Chars("\"}"))
    ELSE IF action.type = Chars("end-turn") THEN
        snprintf(JSON_SIZE, Chars("{\"type\":\"action\",\"action\":\"end-turn\"}"))
    ELSE garbage

\* A slip that takes a failed write for the end of the connection
mp_send_state_drops_on_failure(state, write_ok) ==
    /\ entry' = <<"mp_send_state", state>>
    /\ IF ~mp_active \/ state = NoState THEN
           /\ os_calls' = <<>>
           /\ UNCHANGED <<pipe_out, n_sends, mp_active>>
       ELSE
           /\ pipe_out' = send_message(pipe_handle, EncodeState(state), write_ok)
           /\ os_calls' = send_calls(pipe_handle)
           /\ mp_active' = send_result(pipe_handle, write_ok)
           /\ n_sends' = IF send_result(pipe_handle, write_ok)
                         THEN n_sends + 1 ELSE n_sends
    /\ UNCHANGED <<mp_session, pipe_handle, open_handles, turn_vars, cb_vars,
                   buf_vars, pipe_in, log_vars, ret, n_init, n_peer, n_fill>>

mp_send_state(state, write_ok) ==
    /\ entry' = <<"mp_send_state", state>>
    /\ IF ~mp_active \/ state = NoState THEN
           /\ os_calls' = <<>>
           /\ UNCHANGED <<pipe_out, n_sends>>
       ELSE
           /\ pipe_out' = send_message(pipe_handle, EncodeState(state), write_ok)
           /\ os_calls' = send_calls(pipe_handle)
           /\ n_sends' = IF send_result(pipe_handle, write_ok)
                         THEN n_sends + 1 ELSE n_sends
    /\ UNCHANGED <<conn_vars, turn_vars, cb_vars, buf_vars, pipe_in, log_vars,
                   ret, n_init, n_peer, n_fill>>

\* A slip that writes without looking for a connection
mp_send_action_unguarded(action, write_ok, garbage) ==
    /\ entry' = <<"mp_send_action", action>>
    /\ IF action = NoState THEN
           /\ os_calls' = <<>>
           /\ UNCHANGED <<pipe_out, n_sends>>
       ELSE
           /\ pipe_out' = IF write_ok
                           THEN Append(pipe_out,
                                   [handle |-> pipe_handle,
                                    data |-> SendBuffer(
                                        EncodeAction(action, garbage))])
                           ELSE pipe_out
           /\ os_calls' = <<"WriteFile">>
           /\ n_sends' = IF write_ok THEN n_sends + 1 ELSE n_sends
    /\ UNCHANGED <<conn_vars, turn_vars, cb_vars, buf_vars, pipe_in, log_vars,
                   ret, n_init, n_peer, n_fill>>

mp_send_action(action, write_ok, garbage) ==
    /\ entry' = <<"mp_send_action", action>>
    /\ IF ~mp_active \/ action = NoState THEN
           /\ os_calls' = <<>>
           /\ UNCHANGED <<pipe_out, n_sends>>
       ELSE
           /\ pipe_out' = send_message(pipe_handle,
                                       EncodeAction(action, garbage), write_ok)
           /\ os_calls' = send_calls(pipe_handle)
           /\ n_sends' = IF send_result(pipe_handle, write_ok)
                         THEN n_sends + 1 ELSE n_sends
    /\ UNCHANGED <<conn_vars, turn_vars, cb_vars, buf_vars, pipe_in, log_vars,
                   ret, n_init, n_peer, n_fill>>

(* ----------------------------------------------------------------------- *)
(* mp_init and mp_exit                                                     *)
(* ----------------------------------------------------------------------- *)
NoArgs == [has_multiplayer_flag |-> FALSE, pipe_name |-> NULL,
           session_id |-> NULL, participant_id |-> NULL]

\* The loop over argv[i]; argv[0] is index 1 here
RECURSIVE ParseArgs(_, _, _)
ParseArgs(argv, i, acc) ==
    IF i > Len(argv) THEN acc
    ELSE IF argv[i] = "-multiplayer" THEN
        ParseArgs(argv, i + 1, [acc EXCEPT !.has_multiplayer_flag = TRUE])
    ELSE IF argv[i] = "-pipe" /\ i + 1 <= Len(argv) THEN
        ParseArgs(argv, i + 2, [acc EXCEPT !.pipe_name = argv[i + 1]])
    ELSE IF argv[i] = "-session" /\ i + 1 <= Len(argv) THEN
        ParseArgs(argv, i + 2, [acc EXCEPT !.session_id = argv[i + 1]])
    ELSE IF argv[i] = "-player" /\ i + 1 <= Len(argv) THEN
        ParseArgs(argv, i + 2, [acc EXCEPT !.participant_id = argv[i + 1]])
    ELSE ParseArgs(argv, i + 1, acc)

\* A slip that forgets to test participant_id
ArgsComplete_no_player(a) == a.pipe_name # NULL /\ a.session_id # NULL

\* pipe_name && session_id && participant_id
ArgsComplete(a) ==
    a.pipe_name # NULL /\ a.session_id # NULL /\ a.participant_id # NULL

StoreSession(a) ==
    [mp_session EXCEPT
        !.pipe_name = strncpy(Chars(a.pipe_name), PIPE_NAME_SIZE),
        !.session_id = strncpy(Chars(a.session_id), ID_SIZE),
        !.participant_id = strncpy(Chars(a.participant_id), ID_SIZE)]

\* A slip that waits a second time when the pipe did not appear
connect_calls_retry(outcome) ==
    IF outcome = "wait_failed" THEN <<"WaitNamedPipeA", "WaitNamedPipeA">>
    ELSE IF outcome = "open_failed" THEN <<"WaitNamedPipeA", "CreateFileA">>
    ELSE <<"WaitNamedPipeA", "CreateFileA", "SetNamedPipeHandleState">>

\* The Win32 calls of connect_to_pipe
connect_calls(outcome) ==
    IF outcome = "wait_failed" THEN <<"WaitNamedPipeA">>
    ELSE IF outcome = "open_failed" THEN <<"WaitNamedPipeA", "CreateFileA">>
    ELSE <<"WaitNamedPipeA", "CreateFileA", "SetNamedPipeHandleState">>

\* connect_to_pipe: the handle it leaves in pipe_handle; h is the handle
\* CreateFileA returns when it succeeds
connect_to_pipe(outcome, h) ==
    IF outcome = "wait_failed" THEN pipe_handle
    ELSE IF outcome = "open_failed" THEN INVALID_HANDLE_VALUE
    ELSE h

mp_init(argv, outcome, write_ok) ==
    LET a == ParseArgs(argv, 2, NoArgs)
        h == n_init + 1
    IN /\ entry' = <<"mp_init", argv>>
       /\ IF ~a.has_multiplayer_flag THEN
              /\ ret' = FALSE
              /\ os_calls' = <<>>
              /\ UNCHANGED <<conn_vars, pipe_in, pipe_out, n_init>>
          ELSE IF ~ArgsComplete(a) THEN
              /\ ret' = FALSE
              /\ os_calls' = <<>>
              /\ UNCHANGED <<conn_vars, pipe_in, pipe_out, n_init>>
          ELSE
              /\ mp_session' = StoreSession(a)
              /\ pipe_handle' = connect_to_pipe(outcome, h)
              /\ IF outcome = "connected" THEN
                     /\ n_init' = n_init + 1
                     /\ open_handles' = open_handles \cup {h}
                     /\ pipe_in' = <<>>
                     /\ mp_active' = TRUE
                     /\ pipe_out' = send_message(h,
                            EncodeReady(mp_session'.participant_id), write_ok)
                     /\ os_calls' = connect_calls(outcome) \o send_calls(h)
                     /\ ret' = TRUE
                 ELSE
                     /\ ret' = FALSE
                     /\ os_calls' = connect_calls(outcome)
                     /\ pipe_in' = IF outcome = "open_failed" THEN <<>> ELSE pipe_in
                     /\ UNCHANGED <<mp_active, open_handles, pipe_out, n_init>>
       /\ UNCHANGED <<turn_vars, cb_vars, buf_vars, log_vars, n_sends, n_peer, n_fill>>

\* disconnect_pipe: closes the handle if there is one
disconnect_pipe ==
    /\ os_calls' = IF pipe_handle # INVALID_HANDLE_VALUE
                   THEN <<"CloseHandle">> ELSE <<>>
    /\ open_handles' = open_handles \ {pipe_handle}
    /\ pipe_handle' = INVALID_HANDLE_VALUE
    /\ pipe_in' = <<>>

mp_exit ==
    /\ entry' = <<"mp_exit">>
    /\ IF mp_active THEN
           /\ disconnect_pipe
           /\ mp_active' = FALSE
       ELSE /\ os_calls' = <<>>
            /\ UNCHANGED <<mp_active, pipe_handle, open_handles, pipe_in>>
    /\ UNCHANGED <<mp_session, turn_vars, cb_vars, buf_vars, pipe_out,
                   log_vars, ret, cnt_vars>>

(* ----------------------------------------------------------------------- *)
(* The launcher                                                            *)
(* ----------------------------------------------------------------------- *)
\* The launcher writes bytes on the connection the game holds
PeerWrite(item) ==
    /\ entry' = <<"launcher">>
    /\ pipe_handle # INVALID_HANDLE_VALUE
    /\ n_peer' = n_peer + 1
    /\ pipe_in' = pipe_in \o item
    /\ os_calls' = <<>>
    /\ UNCHANGED <<conn_vars, turn_vars, cb_vars, buf_vars, pipe_out,
                   log_vars, ret, n_init, n_sends, n_fill>>

\* The launcher writes a long run of bytes that holds no delimiter
PeerFill ==
    /\ entry' = <<"launcher">>
    /\ pipe_handle # INVALID_HANDLE_VALUE
    /\ n_fill' = n_fill + 1
    /\ pipe_in' = pipe_in \o FillRun
    /\ os_calls' = <<>>
    /\ UNCHANGED <<conn_vars, turn_vars, cb_vars, buf_vars, pipe_out,
                   log_vars, ret, n_init, n_sends, n_peer>>

(* ----------------------------------------------------------------------- *)
(* Specification                                                           *)
(* ----------------------------------------------------------------------- *)
\* Calls that the bounds of the model ration
Budget == n_init + n_sends + n_peer + n_fill

Next ==
    \/ \E argv \in MainArgvs, outcome \in ConnectOutcomes, write_ok \in BOOLEAN :
           /\ outcome = "connected" => Budget < MaxCalls
           /\ outcome # "connected" => write_ok
           /\ mp_init(argv, outcome, write_ok)
    \/ mp_exit
    \/ \E state \in MainStates, write_ok \in BOOLEAN :
           /\ Budget < MaxCalls
           /\ state = NoState => write_ok
           /\ mp_send_state(state, write_ok)
    \/ \E action \in MainActions, write_ok \in BOOLEAN,
          garbage \in StackGarbage :
           /\ Budget < MaxCalls
           /\ action = NoState => write_ok
           /\ mp_send_action(action, write_ok, garbage)
    \/ \E io \in PollOutcomes, garbage \in StackGarbage :
           /\ io # "read" => garbage = <<>>
           /\ mp_poll_message(io, garbage)
    \/ \E cb \in MainHandlers : mp_set_turn_start_callback(cb)
    \/ \E cb \in MainHandlers : mp_set_remote_action_callback(cb)
    \/ \E cb \in MainHandlers : mp_set_player_state_callback(cb)
    \/ \E item \in MainItems :
           /\ Budget < MaxCalls
           /\ PeerWrite(item)

Spec == Init /\ [][Next]_vars

\* Turn ownership: sessions of either participant, turn-start traffic
NextTurn ==
    \/ \E argv \in {ArgvP1, ArgvP2}, outcome \in ConnectOutcomes :
           /\ outcome = "connected" => n_init < MaxTurnInits
           /\ mp_init(argv, outcome, TRUE)
    \/ mp_exit
    \/ \E garbage \in StackGarbage : mp_poll_message("read", garbage)
    \/ \E item \in TurnItems :
           /\ n_peer < MaxTurnWrites
           /\ PeerWrite(item)

SpecTurn == Init /\ [][NextTurn]_vars

\* One session as participant p1
Connect == n_init = 0 /\ mp_init(ArgvP1, "connected", TRUE)

\* Framing: bytes arrive a few at a time, and in one long run that the
\* launcher writes at any point of a stream still shorter than the run
NextFrame ==
    \/ Connect
    \/ \E io \in PollOutcomes : mp_poll_message(io, <<>>)
    \/ \E item \in RawItems :
           /\ n_peer < MaxRawWrites
           /\ PeerWrite(item)
    \/ Len(rx_stream) + Len(pipe_in) < Len(FillRun) /\ PeerFill

SpecFrame == Init /\ [][NextFrame]_vars

\* Dispatch: registrations against every kind of frame, reads that succeed
NextDispatch ==
    \/ Connect
    \/ mp_poll_message("read", <<>>)
    \/ \E cb \in DispatchHandlers : mp_set_turn_start_callback(cb)
    \/ \E cb \in DispatchOtherHandlers : mp_set_remote_action_callback(cb)
    \/ \E cb \in DispatchOtherHandlers : mp_set_player_state_callback(cb)
    \/ \E item \in DispatchItems :
           /\ n_peer < MaxDispatchWrites
           /\ PeerWrite(item)

SpecDispatch == Init /\ [][NextDispatch]_vars

\* Unknown frames: frames without a recognized type among recognized ones
NextUnknown ==
    \/ Connect
    \/ \E io \in PollOutcomes : mp_poll_message(io, <<>>)
    \/ \E cb \in UnknownHandlers : mp_set_turn_start_callback(cb)
    \/ \E cb \in UnknownHandlers : mp_set_remote_action_callback(cb)
    \/ \E cb \in UnknownHandlers : mp_set_player_state_callback(cb)
    \/ \E item \in UnknownItems :
           /\ n_peer < MaxUnknownWrites
           /\ PeerWrite(item)

SpecUnknown == Init /\ [][NextUnknown]_vars

\* Decoding: frames of each kind with some of their keys absent
NextDecode ==
    \/ Connect
    \/ \E io \in PollOutcomes, garbage \in StackGarbage :
           /\ io # "read" => garbage = <<>>
           /\ mp_poll_message(io, garbage)
    \/ \E cb \in DecodeHandlers : mp_set_turn_start_callback(cb)
    \/ \E cb \in DecodeHandlers : mp_set_remote_action_callback(cb)
    \/ \E cb \in DecodeHandlers : mp_set_player_state_callback(cb)
    \/ \E item \in DecodeItems :
           /\ n_peer < MaxDecodeWrites
           /\ PeerWrite(item)

SpecDecode == Init /\ [][NextDecode]_vars

\* Round trip: one session of either participant, every message sent
NextRoundTrip ==
    \/ \E argv \in {ArgvP1, ArgvP2} :
           /\ n_init = 0
           /\ mp_init(argv, "connected", TRUE)
    \/ \E state \in RoundTripStates :
           /\ n_sends < MaxRoundTripSends
           /\ mp_send_state(state, TRUE)
    \/ \E action \in RoundTripActions :
           /\ n_sends < MaxRoundTripSends
           /\ mp_send_action(action, TRUE, <<>>)

SpecRoundTrip == Init /\ [][NextRoundTrip]_vars

\* Sessions: the layer is opened, closed and opened again as participant p1
NextSession ==
    \/ /\ n_init < MaxSessions
       /\ mp_init(ArgvP1, "connected", TRUE)
    \/ mp_exit
    \/ mp_poll_message("read", <<>>)
    \/ \E item \in SessionItems :
           /\ n_peer < MaxSessionWrites
           /\ PeerWrite(item)

SpecSession == Init /\ [][NextSession]_vars

\* Ordering: turn-starts, one and two to a read, with and without a handler
NextOrder ==
    \/ Connect
    \/ \E garbage \in StackGarbage : mp_poll_message("read", garbage)
    \/ \E cb \in OrderHandlers : mp_set_turn_start_callback(cb)
    \/ \E item \in OrderItems :
           /\ n_peer < MaxOrderWrites
           /\ PeerWrite(item)

SpecOrder == Init /\ [][NextOrder]_vars

\* A poll whose check and read succeed
PollRead == mp_poll_message("read", <<>>)

\* Polling: one session that stays open; the game keeps polling, and the
\* polls whose read succeeds are not put off for ever
NextPoll ==
    \/ Connect
    \/ PollRead
    \/ \E io \in {"peek_failed", "read_failed"} : mp_poll_message(io, <<>>)
    \/ \E item \in PollItems :
           /\ n_peer < MaxPollWrites
           /\ PeerWrite(item)

\* Bytes are waiting on an open connection: a poll would read some of them
PollWouldRead ==
    /\ mp_active
    /\ pipe_handle # INVALID_HANDLE_VALUE
    /\ pipe_in # <<>>

\* The game loop calls mp_poll_message once per tick: the polls that read
\* waiting bytes are weakly fair.  This is WF_vars(PollWouldRead /\ PollRead)
\* with its enabling condition, PollWouldRead, written out.
PollFairness ==
    \/ []<>(~PollWouldRead)
    \/ []<><<PollWouldRead /\ PollRead>>_vars

SpecPoll == Init /\ [][NextPoll]_vars /\ PollFairness

\* What char json[512] of mp_send_action can hold on entry: nothing, bytes
\* of an earlier local, or the frame an earlier call built in the same slot
JsonGarbage ==
    StackGarbage \cup {Chars("{\"type\":\"action\",\"action\":\"end-turn\"}")}

\* Actions: one session whose writes succeed; the game sends actions of the
\* four known types and of another type
NextAction ==
    \/ Connect
    \/ mp_exit
    \/ \E action \in SendActions, garbage \in JsonGarbage :
           /\ n_sends < MaxActionSends
           /\ mp_send_action(action, TRUE, garbage)

SpecAction == Init /\ [][NextAction]_vars

\* What the launcher writes while a handler may end the session: one
\* frame, and two frames in one write
ReentrantItems ==
    {Item(TurnStartP1), Item(TurnStartP2) \o Item(TurnStartP1)}

ReentrantHandlers == {ExitHandler, "h1", NULL}

\* Re-entrancy: the turn-start handler may be one that calls mp_exit
NextReentrant ==
    \/ /\ n_init < MaxReentrantInits
       /\ mp_init(ArgvP1, "connected", TRUE)
    \/ mp_exit
    \/ mp_poll_message("read", <<>>)
    \/ \E cb \in ReentrantHandlers : mp_set_turn_start_callback(cb)
    \/ \E item \in ReentrantItems :
           /\ n_peer < MaxReentrantWrites
           /\ PeerWrite(item)

SpecReentrant == Init /\ [][NextReentrant]_vars

\* Connection: every argv and every outcome of the connect and of the
\* writes, on a layer that is inactive, active or closed
NextConn ==
    \/ \E argv \in Argvs, outcome \in ConnectOutcomes, write_ok \in BOOLEAN :
           /\ outcome = "connected" => Budget < MaxConnCalls
           /\ outcome # "connected" => write_ok
           /\ mp_init(argv, outcome, write_ok)
    \/ mp_exit
    \/ \E state \in MainStates, write_ok \in BOOLEAN :
           /\ Budget < MaxConnCalls
           /\ state = NoState => write_ok
           /\ mp_send_state(state, write_ok)
    \/ \E action \in MainActions, write_ok \in BOOLEAN :
           /\ Budget < MaxConnCalls
           /\ action = NoState => write_ok
           /\ mp_send_action(action, write_ok, <<>>)
    \/ \E io \in PollOutcomes : mp_poll_message(io, <<>>)
    \/ \E cb \in ConnHandlers : mp_set_turn_start_callback(cb)
    \/ \E item \in ConnItems :
           /\ Budget < MaxConnCalls
           /\ PeerWrite(item)

SpecConn == Init /\ [][NextConn]_vars

(* ----------------------------------------------------------------------- *)
(* What the launcher's frames carry, read off the frames themselves        *)
(* ----------------------------------------------------------------------- *)
TurnStartFrames == {Chars(TurnStartP1), Chars(TurnStartP2), Chars(TurnStartNoId)}

CarriedId(frame) ==
    IF frame = Chars(TurnStartP1) THEN Chars("p1")
    ELSE IF frame = Chars(TurnStartP2) THEN Chars("p2")
    ELSE NULLSTR

\* Index of the last turn-start in a log of frames, 0 if there is none
LastTurnStart(log) ==
    LET S == {i \in 1..Len(log) : log[i] \in TurnStartFrames}
    IN IF S = {} THEN 0 ELSE CHOOSE i \in S : \A j \in S : j <= i

(* ----------------------------------------------------------------------- *)
(* C1  Turn ownership.  After every step, if the last turn-start decoded   *)
(* so far carries participant id P then mp_get_current_turn_player() is P; *)
(* and if that turn-start was decoded by this step then the layer is       *)
(* active and mp_is_my_turn() holds exactly when P is the participant id   *)
(* of the local session.                                                   *)
(* ----------------------------------------------------------------------- *)
C1_Post ==
    LET k == LastTurnStart(decoded')
    IN (k > 0 /\ CarriedId(decoded'[k]) # NULLSTR) =>
          /\ mp_get_current_turn_player' = CarriedId(decoded'[k])
          /\ k > Len(decoded) =>
                /\ mp_active'
                /\ mp_is_my_turn' <=>
                      (CarriedId(decoded'[k]) = mp_session'.participant_id)

C1_TurnOwnership == [][C1_Post]_vars

\* The launcher named p2, behind a remote-action, and then p1, and the local
\* participant p1 now owns the turn
C1_Witness ==
    /\ mp_active
    /\ decoded = <<Chars(RemoteAttack), Chars(TurnStartP2), Chars(TurnStartP1)>>
    /\ mp_session.participant_id = Chars("p1")
    /\ mp_is_my_turn
    /\ mp_get_current_turn_player = Chars("p1")

(* ----------------------------------------------------------------------- *)
(* C2  TurnState frame condition.  A step changes current_turn_player or   *)
(* is_my_turn only if it hands a turn-start frame to process_message:      *)
(* every other frame, a poll without data, mp_send_state, mp_send_action,  *)
(* the three registrations, mp_init and mp_exit leave both as they were.   *)
(* ----------------------------------------------------------------------- *)
DecodesTurnStart ==
    \E i \in (Len(decoded) + 1)..Len(decoded') : decoded'[i] \in TurnStartFrames

C2_Step ==
    (current_turn_player' # current_turn_player \/ is_my_turn' # is_my_turn)
        => DecodesTurnStart

Delims(s) == {i \in 1..Len(s) : s[i] = "\n"}

\* The non-empty newline-terminated segments of s, in stream order, each
\* without its delimiter
Segments(s) ==
    LET D == Delims(s)
        nth(k) == CHOOSE i \in D : Cardinality({j \in D : j <= i}) = k
        from(k) == IF k = 1 THEN 1 ELSE nth(k - 1) + 1
        all == [k \in 1..Cardinality(D) |-> SubSeq(s, from(k), nth(k) - 1)]
    IN SelectSeq(all, LAMBDA seg : seg # <<>>)

\* The bytes of s after its last delimiter
Pending(s) ==
    LET D == Delims(s)
        last == IF D = {} THEN 0 ELSE CHOOSE i \in D : \A j \in D : j <= i
    IN SubSeq(s, last + 1, Len(s))

\* The bytes the step has read from the pipe
NewBytes == SubSeq(rx_stream', Len(rx_stream) + 1, Len(rx_stream'))

(* ----------------------------------------------------------------------- *)
(* C3  In-order exactly-once framing.  In every reachable state the        *)
(* frames handed to process_message so far are, one for one and in stream  *)
(* order, the non-empty newline-terminated segments of the bytes read so   *)
(* far: as many frames as segments, every segment shorter than             *)
(* MSG_BUFFER_SIZE decoded as it was written, no frame empty and no frame  *)
(* holding a delimiter.                                                    *)
(* ----------------------------------------------------------------------- *)
C3_Framing ==
    LET segs == Segments(rx_stream)
    IN /\ Len(decoded) = Len(segs)
       /\ \A k \in 1..Len(segs) :
             Len(segs[k]) < MSG_BUFFER_SIZE => decoded[k] = segs[k]
       /\ \A k \in 1..Len(decoded) :
             decoded[k] # <<>> /\ Delims(decoded[k]) = {}

\* "A" and then "B\n\nA\n" were written and read: two frames, the empty
\* segment between them not decoded
C3_Witness ==
    /\ rx_stream = <<"A", "B", "\n", "\n", "A", "\n">>
    /\ decoded = <<(<<"A", "B">>), (<<"A">>)>>
    /\ msg_buffer_pos = 0

(* ----------------------------------------------------------------------- *)
(* C4  Partial frame reassembly.  A read that brings no delimiter decodes  *)
(* nothing and adds its bytes to the buffered part of the frame; a read    *)
(* whose only delimiter is its last byte decodes exactly one frame, the    *)
(* buffered part followed by the bytes before the delimiter; a step that   *)
(* reads nothing leaves the buffered part alone; and after a read that     *)
(* brings a delimiter the buffered part is the bytes that follow the last  *)
(* delimiter of the read.  All of this for frames shorter than             *)
(* MSG_BUFFER_SIZE, at whatever chunk boundaries.                          *)
(* ----------------------------------------------------------------------- *)
C4_Step ==
    LET temp  == NewBytes
        D     == Delims(temp)
        whole == msg_buffer \o SubSeq(temp, 1, Len(temp) - 1)
        rest  == Pending(temp)
    IN /\ temp = <<>> =>
             /\ decoded' = decoded
             /\ msg_buffer' = msg_buffer
             /\ msg_buffer_pos' = msg_buffer_pos
       /\ (temp # <<>> /\ D = {}
               /\ Len(msg_buffer) + Len(temp) < MSG_BUFFER_SIZE) =>
             /\ decoded' = decoded
             /\ msg_buffer' = msg_buffer \o temp
       /\ (D = {Len(temp)} /\ whole # <<>> /\ Len(whole) < MSG_BUFFER_SIZE) =>
             decoded' = Append(decoded, whole)
       /\ (D # {} /\ Len(rest) < MSG_BUFFER_SIZE) =>
             msg_buffer' = rest
       /\ msg_buffer_pos' = Len(msg_buffer')

C4_Reassembly == [][C4_Step]_vars

\* A frame of MSG_BUFFER_SIZE - 1 bytes, which no fewer than five reads of
\* at most TEMP_SIZE - 1 bytes can bring, was decoded once and whole
C4_Witness ==
    /\ decoded = <<FillRun>>
    /\ Len(rx_stream) = MSG_BUFFER_SIZE
    /\ msg_buffer_pos = 0

(* ----------------------------------------------------------------------- *)
(* C5  FrameBuffer capacity.  In every reachable state msg_buffer_pos is   *)
(* between 0 and MSG_BUFFER_SIZE, the buffer holds no more than            *)
(* MSG_BUFFER_SIZE bytes, and no frame handed to process_message is longer *)
(* than MSG_BUFFER_SIZE bytes.                                             *)
(* ----------------------------------------------------------------------- *)
C5_Capacity ==
    /\ msg_buffer_pos \in 0..MSG_BUFFER_SIZE
    /\ Len(msg_buffer) <= MSG_BUFFER_SIZE
    /\ \A k \in 1..Len(decoded) : Len(decoded[k]) <= MSG_BUFFER_SIZE

\* More bytes than the buffer holds were read without a delimiter, and the
\* position stands at the last usable slot
C5_Witness ==
    /\ Len(Pending(rx_stream)) > MSG_BUFFER_SIZE
    /\ msg_buffer_pos = MSG_BUFFER_SIZE - 1

(* ----------------------------------------------------------------------- *)
(* C6  Overflow isolation.  For every segment of the bytes read so far     *)
(* that is longer than MSG_BUFFER_SIZE, the frame decoded for it is its    *)
(* prefix of the MSG_BUFFER_SIZE - 1 bytes the buffer retained, every      *)
(* later segment shorter than MSG_BUFFER_SIZE is decoded as written, and   *)
(* the buffer is empty whenever the last byte read is a delimiter.         *)
(* ----------------------------------------------------------------------- *)
C6_Isolation ==
    LET segs == Segments(rx_stream)
    IN /\ \A k \in 1..Len(segs) :
             Len(segs[k]) > MSG_BUFFER_SIZE =>
                /\ k <= Len(decoded)
                /\ decoded[k] = SubSeq(segs[k], 1, MSG_BUFFER_SIZE - 1)
                /\ \A j \in (k + 1)..Len(segs) :
                      Len(segs[j]) < MSG_BUFFER_SIZE =>
                         j <= Len(decoded) /\ decoded[j] = segs[j]
       /\ (rx_stream # <<>> /\ rx_stream[Len(rx_stream)] = "\n") =>
             msg_buffer_pos = 0 /\ msg_buffer = <<>>

\* A segment of MSG_BUFFER_SIZE + 1 bytes was cut to the retained prefix and
\* the frame "A" that followed it was decoded intact
C6_Witness ==
    /\ Len(rx_stream) = MSG_BUFFER_SIZE + 5
    /\ decoded = <<FillRun, (<<"A">>)>>
    /\ msg_buffer_pos = 0

(* ----------------------------------------------------------------------- *)
(* What a frame is, read off the frame itself                              *)
(* ----------------------------------------------------------------------- *)
UnknownFrames == {Chars(BogusType), Chars(NoType)}

KindOfFrame(frame) ==
    IF frame \in TurnStartFrames THEN "turn-start"
    ELSE IF frame \in {Chars(RemoteAttack), Chars(RemoteBare)} THEN "remote-action"
    ELSE IF frame = Chars(PlayerStateP2) THEN "player-state"
    ELSE "none"

\* The frames and the calls the step has added to the logs
NewFrames == SubSeq(decoded', Len(decoded) + 1, Len(decoded'))
NewCalls == SubSeq(calls', Len(calls) + 1, Len(calls'))

(* ----------------------------------------------------------------------- *)
(* C7  Unknown type ignored.  In every step, the frames of a read are all  *)
(* decoded, whether or not a frame of absent or unrecognized type is among *)
(* them; the callbacks that run are those of the recognized frames with a  *)
(* registered handler, one each and in order; the turn is that of the last *)
(* recognized turn-start, unchanged if there is none; and after a read     *)
(* that held an unrecognized frame the layer is as active as before and    *)
(* the poll has returned true.                                             *)
(* ----------------------------------------------------------------------- *)
C7_Step ==
    LET known  == SelectSeq(NewFrames, LAMBDA f : f \notin UnknownFrames)
        served == SelectSeq(known, LAMBDA f : registered[KindOfFrame(f)] # NULL)
        k      == LastTurnStart(known)
    IN /\ Len(NewFrames) = Cardinality(Delims(NewBytes))
       /\ Len(NewCalls) = Len(served)
       /\ \A i \in 1..Len(served) :
             NewCalls[i].kind = KindOfFrame(served[i])
       /\ k > 0 => current_turn_player' = CarriedId(known[k])
       /\ k = 0 => UNCHANGED turn_vars
       /\ (\E i \in 1..Len(NewFrames) : NewFrames[i] \in UnknownFrames) =>
             mp_active' = mp_active /\ ret' = TRUE

C7_UnknownIgnored == [][C7_Step]_vars

\* A frame without a type arrived in one write with a remote-action behind
\* it, after a turn-start: the two recognized frames reached their handlers
\* and the turn is still the one the turn-start gave
C7_Witness ==
    /\ decoded = <<Chars(TurnStartP1), Chars(NoType), Chars(RemoteAttack)>>
    /\ Len(calls) = 2
    /\ calls[1].kind = "turn-start"
    /\ calls[2].kind = "remote-action"
    /\ mp_active
    /\ is_my_turn
    /\ current_turn_player = Chars("p1")

\* How many entries of a log satisfy a test
Count(log, Test(_)) == Len(SelectSeq(log, Test))

(* ----------------------------------------------------------------------- *)
(* C9  Single slot, last writer wins.  In every step, each callback that   *)
(* runs is the handler most recently registered for the kind of its        *)
(* message and is not NULL; for each kind, as many callbacks run as frames *)
(* of that kind were decoded if a handler is registered for it, and none   *)
(* otherwise; and after the step each slot holds the handler most recently *)
(* registered for its own kind, whatever was registered for the others.    *)
(* ----------------------------------------------------------------------- *)
C9_Step ==
    /\ \A i \in 1..Len(NewCalls) :
          /\ NewCalls[i].cb # NULL
          /\ NewCalls[i].cb = registered[NewCalls[i].kind]
    /\ \A K \in Kinds :
          Count(NewCalls, LAMBDA c : c.kind = K) =
             IF registered[K] # NULL
             THEN Count(NewFrames, LAMBDA f : KindOfFrame(f) = K)
             ELSE 0
    /\ on_turn_start' = registered'["turn-start"]
    /\ on_remote_action' = registered'["remote-action"]
    /\ on_player_state' = registered'["player-state"]

C9_LastWriterWins == [][C9_Step]_vars

\* h1 took a turn-start, h2 replaced it and took the next one, while the
\* remote-action slot kept h1 throughout
C9_Witness ==
    /\ decoded = <<Chars(TurnStartP1), Chars(TurnStartP1)>>
    /\ Len(calls) = 2
    /\ calls[1].cb = "h1" /\ calls[1].kind = "turn-start"
    /\ calls[2].cb = "h2" /\ calls[2].kind = "turn-start"
    /\ on_turn_start = "h2"
    /\ on_remote_action = "h1"

(* ----------------------------------------------------------------------- *)
(* C10  Dispatch without a handler.  In every step, no callback runs for a *)
(* kind that has no handler registered; a turn-start decoded while no      *)
(* turn-start handler is registered still makes its participant the        *)
(* current turn player and sets is_my_turn by comparison with the local    *)
(* participant id; and a step that decodes only remote-action and          *)
(* player-state frames that have no handler leaves the callback log, the   *)
(* turn, the connection, the slots and the outbound pipe as they were.     *)
(* ----------------------------------------------------------------------- *)
C10_Step ==
    LET k == LastTurnStart(NewFrames)
    IN /\ \A i \in 1..Len(NewCalls) : registered[NewCalls[i].kind] # NULL
       /\ (k > 0 /\ registered["turn-start"] = NULL) =>
             /\ current_turn_player' = CarriedId(NewFrames[k])
             /\ is_my_turn' = (CarriedId(NewFrames[k]) = mp_session.participant_id)
       /\ (/\ NewFrames # <<>>
           /\ \A i \in 1..Len(NewFrames) :
                 /\ KindOfFrame(NewFrames[i]) \in {"remote-action", "player-state"}
                 /\ registered[KindOfFrame(NewFrames[i])] = NULL) =>
             /\ calls' = calls
             /\ UNCHANGED <<turn_vars, conn_vars, cb_vars, pipe_out>>

C10_NoHandler == [][C10_Step]_vars

\* With a handler for player-state only, a turn-start and a remote-action
\* were decoded: nothing was called and p1 has the turn
C10_Witness ==
    /\ decoded = <<Chars(TurnStartP1), Chars(RemoteAttack)>>
    /\ calls = <<>>
    /\ on_turn_start = NULL
    /\ on_remote_action = NULL
    /\ on_player_state = "h1"
    /\ mp_is_my_turn
    /\ mp_get_current_turn_player = Chars("p1")

(* ----------------------------------------------------------------------- *)
(* What a generated frame should decode to, read off the keys it carries   *)
(* ----------------------------------------------------------------------- *)
\* The case a generated frame was built from
CaseOf(frame) == CHOOSE c \in DecodeCases : FrameOf[c] = frame

DocumentedDefault(name) ==
    IF name = "timeLimit" THEN 30
    ELSE IF name \in IntFields THEN 0
    ELSE IF name \in BoolFields THEN FALSE
    ELSE <<>>

\* The value of a key after decoding: the one sent, or the default
Want(c, name) ==
    IF name \in c.present THEN SentValue(c.kind, name)
    ELSE DocumentedDefault(name)

\* The value the handler of the frame's kind should be passed
WantArg(c) ==
    IF c.kind = "turn-start" THEN
        [player_id  |-> Want(c, "participantId"),
         time_limit |-> Want(c, "timeLimit")]
    ELSE IF c.kind = "remote-action" THEN
        [type           |-> Want(c, "action"),
         target_tile    |-> Want(c, "targetTile"),
         target_id      |-> Want(c, "targetId"),
         weapon_mode    |-> Want(c, "weaponMode"),
         aimed_location |-> Want(c, "aimedLocation"),
         item_id        |-> Want(c, "itemId")]
    ELSE
        [participant_id |-> Want(c, "participantId"),
         tile_index     |-> Want(c, "tileIndex"),
         elevation      |-> Want(c, "elevation"),
         rotation       |-> Want(c, "rotation"),
         current_hp     |-> Want(c, "currentHp"),
         max_hp         |-> Want(c, "maxHp"),
         current_ap     |-> Want(c, "currentAp"),
         max_ap         |-> Want(c, "maxAp"),
         is_dead        |-> Want(c, "isDead")]

\* The frames of the step whose kind has a handler, and the last
\* turn-start among the frames of the step (0 if none)
ServedFrames ==
    SelectSeq(NewFrames, LAMBDA f : registered[CaseOf(f).kind] # NULL)

LastGeneratedTurnStart ==
    LET S == {i \in 1..Len(NewFrames) : CaseOf(NewFrames[i]).kind = "turn-start"}
    IN IF S = {} THEN 0 ELSE CHOOSE i \in S : \A j \in S : j <= i

(* ----------------------------------------------------------------------- *)
(* C8  Missing fields fall back to defaults.  In every step, each handler  *)
(* that runs is passed, for every key its frame carries, the value sent,   *)
(* and for every key its frame lacks, the documented default (timeLimit    *)
(* 30, other integers 0, strings empty, isDead false); and after a         *)
(* turn-start the current turn player is the participant id the frame      *)
(* carries, or empty if it carries none.                                   *)
(* ----------------------------------------------------------------------- *)
C8_Step ==
    LET k == LastGeneratedTurnStart
    IN /\ Len(NewCalls) = Len(ServedFrames)
       /\ \A i \in 1..Len(ServedFrames) :
             NewCalls[i].arg = WantArg(CaseOf(ServedFrames[i]))
       /\ k > 0 =>
             current_turn_player' = Want(CaseOf(NewFrames[k]), "participantId")

C8_Defaults == [][C8_Step]_vars

\* The same, leaving aside the participant id of a turn-start that carries
\* none
C8_StepButPlayerId ==
    LET k == LastGeneratedTurnStart
        lacksId(c) == c.kind = "turn-start" /\ "participantId" \notin c.present
    IN /\ Len(NewCalls) = Len(ServedFrames)
       /\ \A i \in 1..Len(ServedFrames) :
             LET c == CaseOf(ServedFrames[i])
             IN IF lacksId(c)
                THEN NewCalls[i].arg.time_limit = WantArg(c).time_limit
                ELSE NewCalls[i].arg = WantArg(c)
       /\ (k > 0 /\ ~lacksId(CaseOf(NewFrames[k]))) =>
             current_turn_player' = Want(CaseOf(NewFrames[k]), "participantId")

C8_DefaultsButPlayerId == [][C8_StepButPlayerId]_vars

(* ----------------------------------------------------------------------- *)
(* What a step was, read off the Win32 calls it made                       *)
(* ----------------------------------------------------------------------- *)
\* The last step called mp_init
IsInit == entry # <<>> /\ entry[1] = "mp_init"

\* The step is an mp_init that tried to connect
TriedConnect == IsInit' /\ os_calls' # <<>>

\* The step is an mp_init that returned true
InitReturnedActive == TriedConnect /\ ret'

\* The ready frame of a participant, as it goes on the pipe
ReadyFrame(id) ==
    Chars("{\"type\":\"ready\",\"participantId\":\"") \o id \o Chars("\"}\n")

\* The entries of the outbound log written on handle h, in order
WrittenOn(log, h) == SelectSeq(log, LAMBDA e : e.handle = h)

(* ----------------------------------------------------------------------- *)
(* C11  Ready handshake.  An mp_init that returns true has written one     *)
(* frame, the ready frame of the local participant id, on the connection   *)
(* it opened; and on every connection the first frame written is a ready   *)
(* frame, ahead of any state-update or action frame.                       *)
(* ----------------------------------------------------------------------- *)
C11_Step ==
    /\ InitReturnedActive =>
          pipe_out' = Append(pipe_out,
             [handle |-> pipe_handle',
              data   |-> ReadyFrame(mp_session'.participant_id)])
    /\ \A i \in 1..Len(pipe_out') :
          LET on == WrittenOn(pipe_out', pipe_out'[i].handle)
          IN \E id \in {Chars("p1"), Chars("p2")} : on[1].data = ReadyFrame(id)

C11_ReadyFirst == [][C11_Step]_vars

\* Read off argv: the enable flag is there, and an option lacks its value
HasFlag(argv) == \E i \in 2..Len(argv) : argv[i] = "-multiplayer"

LacksValue(argv) ==
    \E opt \in {"-pipe", "-session", "-player"} :
       ~ \E i \in 2..(Len(argv) - 1) : argv[i] = opt

(* ----------------------------------------------------------------------- *)
(* C12  Configuration errors at init.  Every mp_init step whose argv has   *)
(* no -multiplayer returns false, makes no Win32 call, and leaves the      *)
(* connection, the session, the turn, the buffer, the handlers, both       *)
(* directions of the pipe and the logs as they were; every mp_init step    *)
(* whose argv has the flag but lacks -pipe, -session or -player returns    *)
(* false and makes no Win32 call, so does not try to connect.              *)
(* ----------------------------------------------------------------------- *)
C12_Step ==
    IsInit' =>
       LET argv == entry'[2]
       IN /\ ~HasFlag(argv) =>
                /\ ~ret'
                /\ os_calls' = <<>>
                /\ UNCHANGED <<conn_vars, turn_vars, buf_vars, cb_vars,
                               pipe_in, pipe_out, log_vars>>
          /\ (HasFlag(argv) /\ LacksValue(argv)) =>
                /\ ~ret'
                /\ os_calls' = <<>>
                /\ pipe_out' = pipe_out

Called(made, name) == \E i \in 1..Len(made) : made[i] = name

\* The number of times name occurs among the calls of a step
Times(made, name) == Cardinality({i \in 1..Len(made) : made[i] = name})

\* The step is an mp_init whose connect_to_pipe returned false: it waited for
\* the pipe and never reached the end of connect_to_pipe
ConnectFailed ==
    /\ IsInit'
    /\ Called(os_calls', "WaitNamedPipeA")
    /\ ~Called(os_calls', "SetNamedPipeHandleState")

\* The step is an mp_init whose connect_to_pipe returned true
ConnectSucceeded == IsInit' /\ Called(os_calls', "SetNamedPipeHandleState")

\* C13: connect failure is terminal. An mp_init whose connect fails (the pipe
\* never appears, or the open fails) returns false after a single attempt: one
\* wait, at most one open, no second wait, no write, nothing added to the
\* transport, no handle opened, and the layer not made active. Nothing
\* retries afterwards: the layer goes from inactive to active, and a handle is
\* opened, only in a later mp_init step whose own connect succeeds; no poll,
\* send, exit, registration or launcher step connects it.
C13_Step ==
    /\ ConnectFailed =>
          /\ ~ret'
          /\ Times(os_calls', "WaitNamedPipeA") = 1
          /\ Times(os_calls', "CreateFileA") <= 1
          /\ ~Called(os_calls', "WriteFile")
          /\ pipe_out' = pipe_out
          /\ open_handles' = open_handles
          /\ mp_active' = mp_active
    /\ (~mp_active /\ mp_active') => ConnectSucceeded
    /\ ~(open_handles' \subseteq open_handles) => ConnectSucceeded

IsExit == entry' = <<"mp_exit">>

\* Everything but the record of the step itself
state_vars == <<conn_vars, turn_vars, buf_vars, cb_vars, pipe_in, pipe_out,
                log_vars>>

\* What mp_exit does when the layer is active: one CloseHandle, of the handle
\* the layer held, and the layer inactive
ClosesOnce ==
    /\ os_calls' = <<"CloseHandle">>
    /\ pipe_handle \in open_handles
    /\ open_handles' = open_handles \ {pipe_handle}
    /\ pipe_handle' = INVALID_HANDLE_VALUE
    /\ ~mp_active'

\* What mp_exit does when the layer is inactive: nothing
ClosesNothing == os_calls' = <<>> /\ UNCHANGED state_vars

\* C14: mp_exit is idempotent and safe when never connected. Called on an
\* active layer it closes the transport exactly once and makes the layer
\* inactive; called again, or on a layer that never connected, it changes no
\* state and closes nothing.
C14_Step == IsExit => IF mp_active THEN ClosesOnce ELSE ClosesNothing

C14_ExitIdempotent == [][C14_Step]_vars

\* The same with the first half kept to an active layer that holds a handle
C14_StepHoldingHandle ==
    IsExit =>
       /\ (mp_active /\ pipe_handle # INVALID_HANDLE_VALUE) => ClosesOnce
       /\ ~mp_active => ClosesNothing

C14_ExitIdempotentHoldingHandle == [][C14_StepHoldingHandle]_vars

\* mp_exit was called twice after a session: the layer is inactive, nothing
\* is open and the second call closed nothing
C14_HoldingHandleWitness ==
    /\ entry = <<"mp_exit">>
    /\ os_calls = <<>>
    /\ ~mp_active
    /\ open_handles = {}
    /\ pipe_out # <<>>

\* The step called one of poll, the two sends and the three registrations, or
\* was the launcher's
KeepsConnection ==
    entry'[1] \in {"mp_poll_message", "mp_send_state", "mp_send_action",
                   "mp_set_turn_start_callback",
                   "mp_set_remote_action_callback",
                   "mp_set_player_state_callback", "launcher"}

\* C15: the connection state machine. An active layer becomes inactive only
\* in a step that calls mp_exit: no poll (failed check, failed read, or a read
\* that decodes messages), no send (failed or not), no registration and no
\* launcher step changes the active flag, the handle held or the set of open
\* handles. An inactive layer becomes active only in a step that calls
\* mp_init: nothing reconnects it by itself after mp_exit.
C15_Step ==
    /\ (mp_active /\ ~mp_active') => IsExit
    /\ (~mp_active /\ mp_active') => IsInit'
    /\ KeepsConnection =>
          UNCHANGED <<mp_active, pipe_handle, open_handles, mp_session>>

C15_ConnectionStates == [][C15_Step]_vars

\* A read has just failed with bytes waiting on a layer that has a handler
\* registered, and the layer is still active on its handle
C15_Witness ==
    /\ entry = <<"mp_poll_message">>
    /\ os_calls = <<"PeekNamedPipe", "ReadFile">>
    /\ ~ret
    /\ pipe_in # <<>>
    /\ registered["turn-start"] # NULL
    /\ mp_active
    /\ pipe_handle \in open_handles

\* The step called mp_send_state or mp_send_action
IsSend == entry'[1] \in {"mp_send_state", "mp_send_action"}

\* The step called mp_poll_message
IsPoll == entry' = <<"mp_poll_message">>

\* C16: sending when not connected is a no-op. On an inactive layer (never
\* initialized, after a failed init, or after mp_exit) mp_send_state and
\* mp_send_action make no Win32 call, write nothing to the transport and
\* change no state, and mp_poll_message returns false without checking for
\* data or reading, and changes no state.
C16_Step ==
    ~mp_active =>
       /\ IsSend => (os_calls' = <<>> /\ UNCHANGED state_vars)
       /\ IsPoll => (~ret' /\ os_calls' = <<>> /\ UNCHANGED state_vars)

C16_InactiveNoOp == [][C16_Step]_vars

\* mp_send_action was called after a session was closed with mp_exit: the
\* layer is inactive, no call was made and the transport holds what the
\* session wrote
C16_Witness ==
    /\ Len(entry) = 2
    /\ entry[1] = "mp_send_action"
    /\ os_calls = <<>>
    /\ ~mp_active
    /\ open_handles = {}
    /\ pipe_out # <<>>

\* The step called WriteFile and the write failed: nothing reached the
\* transport
WriteFailed == Called(os_calls', "WriteFile") /\ pipe_out' = pipe_out

\* The caller of the step was handed false: the entry point returns a bool
\* (mp_init and mp_poll_message do, the two sends return nothing) and the
\* value is false
ReportedFalse == entry'[1] \in {"mp_init", "mp_poll_message"} /\ ~ret'

\* What a failed write leaves alone: after a send, everything; after the
\* ready write of mp_init, the turn state, the buffer and the handlers, with
\* the layer as active as a successful write leaves it
FailedWriteHarmless ==
    /\ IsSend => UNCHANGED state_vars
    /\ IsInit' => (mp_active' /\ UNCHANGED <<turn_vars, buf_vars, cb_vars>>)

\* No step queues or repeats a message: a step adds at most one frame to the
\* transport, and only a send or an mp_init adds one
NoResend ==
    /\ Len(pipe_out') <= Len(pipe_out) + 1
    /\ SubSeq(pipe_out', 1, Len(pipe_out)) = pipe_out
    /\ pipe_out' # pipe_out => (IsSend \/ IsInit')

\* C17: a write failure is non-fatal and not retried. When WriteFile fails in
\* mp_send_state, mp_send_action or the ready write of mp_init, the active
\* flag, the turn state, the frame buffer and the handlers are unchanged, the
\* message is never queued or sent again by the layer, and the failure is
\* reported to the caller as false.
C17_Step ==
    /\ NoResend
    /\ WriteFailed => (FailedWriteHarmless /\ ReportedFalse)

C17_WriteFailure == [][C17_Step]_vars

\* The same without the report to the caller
C17_StepButReport ==
    /\ NoResend
    /\ WriteFailed => FailedWriteHarmless

C17_WriteFailureButReport == [][C17_StepButReport]_vars

\* A send on an active layer has just failed to write: the layer is active
\* and the transport holds the ready frame alone
C17_ButReportWitness ==
    /\ Len(entry) = 2
    /\ entry[1] = "mp_send_state"
    /\ os_calls = <<"WriteFile">>
    /\ mp_active
    /\ Len(pipe_out) = 1

\* C18: poll does not block. mp_poll_message calls ReadFile only after
\* PeekNamedPipe, and only when at least one byte is waiting; when it does
\* not read (nothing is waiting, or the check fails) it returns false, leaves
\* the frame buffer, the turn state and the handlers unchanged, consumes
\* nothing and calls no handler.
C18_Step ==
    IsPoll =>
       /\ Called(os_calls', "ReadFile") =>
             /\ os_calls' = <<"PeekNamedPipe", "ReadFile">>
             /\ Len(pipe_in) >= 1
       /\ ~Called(os_calls', "ReadFile") =>
             /\ ~ret'
             /\ UNCHANGED <<buf_vars, turn_vars, cb_vars, pipe_in, log_vars>>

C18_NonBlockingPoll == [][C18_Step]_vars

\* An active layer that has read everything the launcher wrote was polled
\* again: it checked, found nothing, did not read and returned false
C18_Witness ==
    /\ entry = <<"mp_poll_message">>
    /\ os_calls = <<"PeekNamedPipe">>
    /\ ~ret
    /\ mp_active
    /\ pipe_in = <<>>
    /\ rx_stream # <<>>

\* The step handed at least one frame to process_message
DecodedSome == Len(decoded') > Len(decoded)

\* C19: the result of poll reports whether a message was received.
\* mp_poll_message returns true exactly when at least one complete frame was
\* received and decoded during the call, and false otherwise, also when only
\* a part of a frame or only empty frames were read.
C19_Step == IsPoll => (ret' <=> DecodedSome)

C19_PollResult == [][C19_Step]_vars

\* What the result does tell: a call that decoded a frame returns true, and
\* the call returns true exactly when its ReadFile succeeded, that is when it
\* consumed bytes
C19_StepReadSucceeded ==
    IsPoll =>
       /\ DecodedSome => ret'
       /\ ret' <=> Len(rx_stream') > Len(rx_stream)

C19_PollResultReadSucceeded == [][C19_StepReadSucceeded]_vars

\* A poll has returned true after reading bytes of which none has been handed
\* to process_message
C19_ReadSucceededWitness ==
    /\ entry = <<"mp_poll_message">>
    /\ ret
    /\ rx_stream # <<>>
    /\ decoded = <<>>

\* An initialization has stored a session identity
SessionSet == mp_session.participant_id # <<>>

\* C20: the session is immutable. The session identity (session id,
\* participant id, address) is set once by the first initialization and
\* never changes afterwards, under any later sequence of mp_init (successful
\* or failed), poll, send and mp_exit calls.
C20_Step == SessionSet => mp_session' = mp_session

C20_SessionImmutable == [][C20_Step]_vars

\* What does hold: only an mp_init whose argv carries the flag and the three
\* identifiers changes the session, and it stores the identifiers of that
\* argv; poll, the sends, mp_exit and the registrations never change it
C20_StepButInit ==
    mp_session' # mp_session =>
       /\ IsInit'
       /\ HasFlag(entry'[2])
       /\ ~LacksValue(entry'[2])
       /\ mp_session'.participant_id \in {Chars("p1"), Chars("p2")}
       /\ Called(os_calls', "WaitNamedPipeA")

C20_SessionImmutableButInit == [][C20_StepButInit]_vars

\* A session of p1 was closed with mp_exit and the identity is still there
C20_ButInitWitness ==
    /\ entry = <<"mp_exit">>
    /\ os_calls = <<"CloseHandle">>
    /\ mp_session.participant_id = Chars("p1")
    /\ mp_session.session_id = Chars("s1")

\* The frame the step wrote, without its delimiter
WrittenFrame ==
    LET data == pipe_out'[Len(pipe_out')].data
    IN SubSeq(data, 1, Len(data) - 1)

\* The step wrote one frame, closed by one delimiter
WroteOne ==
    /\ Len(pipe_out') = Len(pipe_out) + 1
    /\ pipe_out'[Len(pipe_out')].data[Len(pipe_out'[Len(pipe_out')].data)] = "\n"

\* The type tag a frame carries
TypeOf(json) == json_get_string(json, "type", <<>>, TYPE_SIZE)

\* The fields a PlayerAction carries, by tag
Carried(type) ==
    IF type = Chars("move") THEN {"target_tile"}
    ELSE IF type = Chars("attack")
         THEN {"target_id", "weapon_mode", "aimed_location"}
    ELSE IF type = Chars("use-item") THEN {"item_id", "target_id"}
    ELSE {}

\* C21: round trip. For every outbound message kind (ready, state-update,
\* and action with each of move, attack, use-item, end-turn), reading the
\* written frame back with the extractors process_message uses for the
\* inbound message of the same content recovers every field the message
\* carries: the participant id of ready, the nine fields of a PlayerState,
\* the tag of a PlayerAction and the fields of its tag; for empty strings,
\* 0, negative integers and both values of is_dead, on an active layer
\* whose writes succeed.
C21_Step ==
    /\ (IsInit' /\ ret') =>
          /\ WroteOne
          /\ TypeOf(WrittenFrame) = Chars("ready")
          /\ json_get_string(WrittenFrame, "participantId", <<>>, ID_SIZE)
                = mp_session'.participant_id
    /\ (mp_active /\ entry'[1] = "mp_send_state") =>
          /\ WroteOne
          /\ TypeOf(WrittenFrame) = Chars("state-update")
          /\ DecodeState(WrittenFrame) = entry'[2]
    /\ (mp_active /\ entry'[1] = "mp_send_action") =>
          /\ WroteOne
          /\ TypeOf(WrittenFrame) = Chars("action")
          /\ DecodeAction(WrittenFrame).type = entry'[2].type
          /\ \A f \in Carried(entry'[2].type) :
                DecodeAction(WrittenFrame)[f] = entry'[2][f]

C21_RoundTrip == [][C21_Step]_vars

\* A state with an empty participant id, 0 and a living player went out
\* after an attack, and came back whole
C21_Witness ==
    /\ Len(entry) = 2
    /\ entry[1] = "mp_send_state"
    /\ entry[2].participant_id = <<>>
    /\ Len(pipe_out) = 3
    /\ DecodeAction(pipe_out[2].data).type = Chars("attack")
    /\ DecodeState(pipe_out[3].data) = entry[2]
    /\ DecodeState(pipe_out[3].data).current_hp = 25

\* The fields of a PlayerAction besides its tag, the key each has on the
\* wire and the value a zeroed PlayerAction holds
ActionFields ==
    {"target_tile", "target_id", "weapon_mode", "aimed_location", "item_id"}

WireKey(f) ==
    IF f = "target_tile" THEN "targetTile"
    ELSE IF f = "target_id" THEN "targetId"
    ELSE IF f = "weapon_mode" THEN "weaponMode"
    ELSE IF f = "aimed_location" THEN "aimedLocation"
    ELSE "itemId"

ZeroField(f) == IF f = "target_tile" THEN 0 ELSE <<>>

\* On encode: the frame an active layer writes for an action of a known tag
\* carries the keys of the fields of that tag and of no other field
EncodesByTag ==
    (mp_active /\ entry'[1] = "mp_send_action" /\ WroteOne) =>
       \A f \in ActionFields :
          (strstr(WrittenFrame, 1, ValKey(WireKey(f))) # 0)
             <=> (f \in Carried(entry'[2].type))

ActionTags == {Chars("move"), Chars("attack"), Chars("use-item"), Chars("end-turn")}

\* On decode: in every PlayerAction of a known tag handed to the
\* remote-action handler, each field outside the decoded tag holds its default
DecodesByTag ==
    \A i \in 1..Len(NewCalls) :
       (NewCalls[i].kind = "remote-action"
            /\ NewCalls[i].arg.type \in ActionTags) =>
          \A f \in ActionFields \ Carried(NewCalls[i].arg.type) :
             NewCalls[i].arg[f] = ZeroField(f)

\* C22: PlayerAction tag discipline. On encode, only the fields meaningful
\* for the tag of the action appear in the written frame (move: targetTile;
\* attack: targetId, weaponMode, aimedLocation; use-item: itemId, targetId;
\* end-turn: none); on decode of a remote-action, every field not meaningful
\* for the decoded tag is left at its default in the PlayerAction passed to
\* the handler, even when the frame carries a value for it.
C22_Step == EncodesByTag /\ DecodesByTag

C22_TagDiscipline == [][C22_Step]_vars

\* The encode half alone
C22_EncodeByTag == [][EncodesByTag]_vars

\* A move was sent whose other fields all held values, and the frame written
\* carries targetTile alone
C22_EncodeWitness ==
    /\ Len(entry) = 2
    /\ entry[1] = "mp_send_action"
    /\ entry[2] = Action("move", -3, "p2", "burst", "head", "stimpak")
    /\ Len(pipe_out) = 2
    /\ pipe_out[2].data =
          Chars("{\"type\":\"action\",\"action\":\"move\",\"targetTile\":-3}\n")

\* The step handed a frame of type turn-start to process_message
ProcessesTurnStart ==
    \E i \in 1..Len(NewFrames) : TypeOf(NewFrames[i]) = Chars("turn-start")

\* No frame of type turn-start has been handed to process_message so far
NoTurnStartSoFar ==
    \A i \in 1..Len(decoded) : TypeOf(decoded[i]) # Chars("turn-start")

\* TurnState as the accessors show it before any turn-start
NoTurnYet == ~mp_is_my_turn /\ mp_get_current_turn_player = NULLSTR

\* C23: the initial TurnState of a session. Immediately after any mp_init
\* that returns active, and until the first turn-start of that session is
\* processed, mp_is_my_turn() is false and mp_get_current_turn_player() is
\* none, also when the init follows an earlier session that received
\* turn-start messages and was closed with mp_exit.
C23_Step ==
    /\ (IsInit' /\ ret') => NoTurnYet'
    /\ (NoTurnYet /\ ~ProcessesTurnStart) => NoTurnYet'

C23_InitialTurnState == [][C23_Step]_vars

\* The same for an init before which the process decoded no turn-start
C23_StepFirstSession ==
    /\ (IsInit' /\ ret' /\ NoTurnStartSoFar) => NoTurnYet'
    /\ (NoTurnYet /\ ~ProcessesTurnStart) => NoTurnYet'

C23_InitialTurnStateFirstSession == [][C23_StepFirstSession]_vars

\* A second session was opened after a first that decoded nothing but a cut
\* frame, and shows no turn
C23_FirstSessionWitness ==
    /\ IsInit
    /\ ret
    /\ n_init = 2
    /\ rx_stream # <<>>
    /\ NoTurnYet

\* The timeLimit a turn-start frame of the launcher carries
CarriedLimit(frame) ==
    IF frame = Chars(TurnStartP1) THEN 30
    ELSE IF frame = Chars(TurnStartP2) THEN 45
    ELSE 10

\* What the accessors return inside a handler that was handed player_id by
\* an active layer whose turn state is already that of the message
SeenFor(player_id) ==
    [my_turn |-> player_id = mp_session.participant_id,
     player  |-> IF player_id # <<>> THEN player_id ELSE NULLSTR]

\* C24: update before dispatch. When a turn-start message is processed, the
\* turn state is updated before the turn-start handler is invoked: inside
\* the handler mp_is_my_turn() and mp_get_current_turn_player() already
\* reflect the message being delivered, and the handler receives the same
\* participant id together with the timeLimit of the message. Stated for
\* each turn-start frame of a read, in the order of the frames.
C24_Step ==
    registered["turn-start"] # NULL =>
       /\ Len(NewCalls) = Len(NewFrames)
       /\ \A i \in 1..Len(NewCalls) :
             /\ NewCalls[i].kind = "turn-start"
             /\ NewCalls[i].arg.time_limit = CarriedLimit(NewFrames[i])
             /\ CarriedId(NewFrames[i]) # NULLSTR =>
                   NewCalls[i].arg.player_id = CarriedId(NewFrames[i])
             /\ NewCalls[i].seen_my_turn = SeenFor(NewCalls[i].arg.player_id).my_turn
             /\ NewCalls[i].seen_player = SeenFor(NewCalls[i].arg.player_id).player

C24_UpdateBeforeDispatch == [][C24_Step]_vars

\* One read held a turn-start for p2 and one for p1: the handler ran twice,
\* saw p2 on turn and not the local player, then p1 and the local player
C24_Witness ==
    /\ Len(calls) = 2
    /\ decoded = <<Chars(TurnStartP2), Chars(TurnStartP1)>>
    /\ calls[1].arg = [player_id |-> Chars("p2"), time_limit |-> 45]
    /\ calls[1].seen_player = Chars("p2") /\ ~calls[1].seen_my_turn
    /\ calls[2].arg = [player_id |-> Chars("p1"), time_limit |-> 30]
    /\ calls[2].seen_player = Chars("p1") /\ calls[2].seen_my_turn

\* The non-empty complete frames the launcher has written so far, read or
\* still in the pipe
FramesWritten == Segments(rx_stream \o pipe_in)

\* C25: progress under polling. While the layer stays active and the host
\* keeps calling poll with reads succeeding, every complete frame the peer
\* has written is eventually decoded: whenever the launcher has written k
\* non-empty complete frames, the layer eventually has handed k frames to
\* process_message; and this although one poll consumes a bounded chunk, at
\* most 1023 bytes, so that a frame may take several calls.
C25_Progress ==
    /\ [][Len(NewBytes) <= TEMP_SIZE - 1]_vars
    /\ \A k \in 1..(MaxPollWrites + 1) :
          (Len(FramesWritten) >= k) ~> (Len(decoded) >= k)

\* The long frame took two reads and was decoded whole, after a turn-start
C25_Witness ==
    /\ decoded = <<Chars(TurnStartP1), LongFrame>>
    /\ pipe_in = <<>>
    /\ mp_active

(* ----------------------------------------------------------------------- *)
(* Active and open transport                                               *)
(* ----------------------------------------------------------------------- *)
\* The handles the process holds open are the one in pipe_handle when the
\* layer is active, and none when it is inactive
HandleAccounted ==
    open_handles = IF mp_active THEN {pipe_handle} ELSE {}

\* C26: in every reachable state the layer is active if and only if it holds
\* an open transport handle; no handle is open while the layer is inactive and
\* no handle was replaced without being closed
C26_ActiveIffOpen ==
    /\ mp_active <=> pipe_handle # INVALID_HANDLE_VALUE
    /\ HandleAccounted

\* C26, kept to steps other than an mp_init on a layer that is already
\* active: such a step keeps the layer active exactly when it holds its one
\* open handle
C26_StepButReinit ==
    (C26_ActiveIffOpen /\ ~(IsInit' /\ mp_active)) => C26_ActiveIffOpen'

C26_ActiveIffOpenButReinit == [][C26_StepButReinit]_vars

\* a second session is open after the first was closed by mp_exit
C26_ButReinitWitness ==
    /\ mp_active
    /\ pipe_handle = 2
    /\ open_handles = {2}

(* ----------------------------------------------------------------------- *)
(* The frame buffer across sessions                                        *)
(* ----------------------------------------------------------------------- *)
\* The first frame decoded after a connect is the buffered bytes followed by
\* the bytes read up to the first newline (receive_messages), so it is made
\* of bytes of the new connection alone exactly when nothing is buffered when
\* the connection opens.
\* C27: when a session was ended by mp_exit and a later mp_init connects, no
\* partial frame of the ended session is left in the buffer to be prepended
\* to the first frame of the new connection
C27_Step ==
    (~mp_active /\ ConnectSucceeded) => msg_buffer_pos' = 0

C27_NoResidue == [][C27_Step]_vars

(* ----------------------------------------------------------------------- *)
(* mp_send_action and the action's type                                    *)
(* ----------------------------------------------------------------------- *)
\* mp_send_action was called on an active layer with an action
SendsAction ==
    /\ mp_active
    /\ entry'[1] = "mp_send_action"
    /\ entry'[2] # NoState

\* The step wrote one frame, and the action alone fixes its bytes
WroteTheActionFrame ==
    /\ os_calls' = <<"WriteFile">>
    /\ WroteOne
    /\ Len(WrittenFrame) > 0
    /\ \A garbage \in JsonGarbage :
          WrittenFrame = EncodeAction(entry'[2], garbage)

\* The step wrote nothing to the transport
WroteNothing == os_calls' = <<>> /\ pipe_out' = pipe_out

\* C28: while active, mp_send_action writes exactly one frame, fully
\* determined by the action, when the action's type is move, attack, use-item
\* or end-turn, and writes nothing to the transport when the type is any other
\* value
C28_Step ==
    SendsAction =>
        IF entry'[2].type \in ActionTags
        THEN WroteTheActionFrame
        ELSE WroteNothing

C28_WellDefinedFrames == [][C28_Step]_vars

\* C28, kept to the four known types: one frame, fixed by the action
C28_StepKnownType ==
    (SendsAction /\ entry'[2].type \in ActionTags) => WroteTheActionFrame

C28_WellDefinedFramesKnownType == [][C28_StepKnownType]_vars

\* an attack was sent after a move in one session
C28_KnownTypeWitness ==
    /\ Len(entry) = 2
    /\ entry[1] = "mp_send_action"
    /\ entry[2].type = Chars("attack")
    /\ Len(pipe_out) = 3
    /\ mp_active

(* ----------------------------------------------------------------------- *)
(* Dispatch and the active flag                                            *)
(* ----------------------------------------------------------------------- *)
\* The step changes no turn state, decodes no frame and invokes no handler
NothingDispatched ==
    /\ calls' = calls
    /\ decoded' = decoded
    /\ UNCHANGED turn_vars

\* The layer is inactive after the step, and the last handler the step
\* invoked was entered on an active layer: the frame it was called for is
\* the last one decoded and the turn state is the one it saw
StoppedAtExit ==
    LET last == calls'[Len(calls')]
    IN /\ Len(calls') > Len(calls)
       /\ last.seen_active
       /\ last.arg.player_id
             = DecodePlayerId(decoded'[Len(decoded')], <<>>)
       /\ is_my_turn' = last.seen_my_turn
       /\ mp_get_current_turn_player' = last.seen_player

\* C29: no handler is ever invoked, and the turn state is never changed, at
\* a moment when the layer is inactive; when a handler calls mp_exit while one
\* read that holds several frames is being processed, the remaining frames of
\* that read are not decoded or dispatched
C29_Step ==
    /\ \A i \in DOMAIN calls' : calls'[i].seen_active
    /\ ~mp_active => (IsInit' \/ NothingDispatched)
    /\ (IsPoll /\ mp_active /\ ~mp_active') => StoppedAtExit

C29_NoDispatchInactive == [][C29_Step]_vars

\* C29, kept to steps that start on an inactive layer: they invoke no
\* handler, decode no frame and leave the turn state alone
C29_StepFromInactive == ~mp_active => NothingDispatched

C29_NoDispatchFromInactive == [][C29_StepFromInactive]_vars

\* a poll on a layer that a handler closed, with a handler still registered
C29_FromInactiveWitness ==
    /\ entry = <<"mp_poll_message">>
    /\ ~mp_active
    /\ ~ret
    /\ on_turn_start = ExitHandler
    /\ Len(calls) > 0
====
